---------------------------- MODULE Spec2Model ----------------------------
(***************************************************************************)
(* The command server of the Blender MCP add-on (addon.py): the listener,  *)
(* the connection handlers, the byte accumulation buffer and its decoder   *)
(* (bytes.decode('utf-8') followed by json.loads), the hand-off to the     *)
(* host main thread through bpy.app.timers, and the capability-gated       *)
(* dispatcher.                                                             *)
(*                                                                         *)
(* Python values are modelled as follows.  A bytes object is a sequence of *)
(* integers 0..255.  A str is a sequence of code points.  A decoded JSON   *)
(* value is a tagged record [k, v]: "null", "bool", "num", "str", "arr"    *)
(* (a sequence of values) or "obj" (a sequence of <<key, value>> pairs in  *)
(* insertion order with distinct keys, as a Python dict).                  *)
(***************************************************************************)
EXTENDS Integers, Sequences, FiniteSets, TLC

(***************************************************************************)
(* Text.  Ord is Python's ord() on the characters the model writes; Str    *)
(* turns a tuple of one-character strings into a str.                      *)
(***************************************************************************)
Letters == <<"a","b","c","d","e","f","g","h","i","j","k","l","m",
             "n","o","p","q","r","s","t","u","v","w","x","y","z">>

Digits == <<"0","1","2","3","4","5","6","7","8","9">>

Capitals == <<"A","B","C","D","E","F","G","H","I","J","K","L","M",
              "N","O","P","Q","R","S","T","U","V","W","X","Y","Z">>

Ord(ch) ==
  IF \E i \in 1..26 : Letters[i] = ch
    THEN 96 + (CHOOSE i \in 1..26 : Letters[i] = ch)
  ELSE IF \E i \in 1..10 : Digits[i] = ch
    THEN 47 + (CHOOSE i \in 1..10 : Digits[i] = ch)
  ELSE IF \E i \in 1..26 : Capitals[i] = ch
    THEN 64 + (CHOOSE i \in 1..26 : Capitals[i] = ch)
  ELSE CASE ch = " "  -> 32
         [] ch = "\"" -> 34
         [] ch = "'"  -> 39
         [] ch = ","  -> 44
         [] ch = "-"  -> 45
         [] ch = "."  -> 46
         [] ch = ":"  -> 58
         [] ch = "["  -> 91
         [] ch = "\\" -> 92
         [] ch = "]"  -> 93
         [] ch = "_"  -> 95
         [] ch = "{"  -> 123
         [] ch = "}"  -> 125

Str(chars) == [i \in 1..Len(chars) |-> Ord(chars[i])]

(***************************************************************************)
(* str.encode('utf-8') and bytes.decode('utf-8') (strict).  Utf8Decode     *)
(* gives [ok |-> FALSE] where Python raises UnicodeDecodeError: an invalid *)
(* start byte, an invalid continuation byte, or a sequence cut short by    *)
(* the end of the data.                                                    *)
(***************************************************************************)
RECURSIVE Utf8Encode(_)
Utf8Encode(s) ==
  IF s = <<>> THEN <<>>
  ELSE LET c == Head(s) IN
       (IF c < 128 THEN <<c>>
        ELSE IF c < 2048 THEN <<192 + (c \div 64), 128 + (c % 64)>>
        ELSE IF c < 65536
          THEN <<224 + (c \div 4096), 128 + ((c \div 64) % 64), 128 + (c % 64)>>
        ELSE <<240 + (c \div 262144), 128 + ((c \div 4096) % 64),
               128 + ((c \div 64) % 64), 128 + (c % 64)>>)
       \o Utf8Encode(Tail(s))

IsCont(b) == b >= 128 /\ b <= 191

\* The number of bytes of the sequence a lead byte starts; 0 for a byte that
\* cannot start one (a continuation byte, 0xC0, 0xC1, 0xF5..0xFF).
Utf8Width(b) ==
  IF b < 128 THEN 1
  ELSE IF b >= 194 /\ b <= 223 THEN 2
  ELSE IF b >= 224 /\ b <= 239 THEN 3
  ELSE IF b >= 240 /\ b <= 244 THEN 4
  ELSE 0

\* The second byte of a 3- or 4-byte sequence excludes overlong forms,
\* surrogates and code points above U+10FFFF.
Utf8SecondOk(b, c) ==
  IF b = 224 THEN c >= 160 /\ c <= 191
  ELSE IF b = 237 THEN c >= 128 /\ c <= 159
  ELSE IF b = 240 THEN c >= 144 /\ c <= 191
  ELSE IF b = 244 THEN c >= 128 /\ c <= 143
  ELSE IsCont(c)

\* the least index from i on whose element is in stops, or Len(s) + 1
FirstIn(s, i, stops) ==
  IF \E k \in i..Len(s) : s[k] \in stops
    THEN CHOOSE k \in i..Len(s) :
           s[k] \in stops /\ \A l \in i..(k - 1) : s[l] \notin stops
  ELSE Len(s) + 1

\* the least index from i on whose element is not in skips, or Len(s) + 1
FirstNotIn(s, i, skips) ==
  IF \E k \in i..Len(s) : s[k] \notin skips
    THEN CHOOSE k \in i..Len(s) :
           s[k] \notin skips /\ \A l \in i..(k - 1) : s[l] \in skips
  ELSE Len(s) + 1

\* the bytes that are no ASCII character
NonAscii == 128..255

\* the code point of the w-byte sequence at index j
Utf8CodePoint(b, j, w) ==
  IF w = 2 THEN (b[j] - 192) * 64 + (b[j + 1] - 128)
  ELSE IF w = 3
    THEN (b[j] - 224) * 4096 + (b[j + 1] - 128) * 64 + (b[j + 2] - 128)
  ELSE (b[j] - 240) * 262144 + (b[j + 1] - 128) * 4096
       + (b[j + 2] - 128) * 64 + (b[j + 3] - 128)

RECURSIVE Utf8From(_, _, _), Utf8Run(_, _, _, _), Utf8Char(_, _, _, _)
\* from index i, with acc the code points of the bytes before it
Utf8From(b, i, acc) == Utf8Run(b, i, acc, FirstIn(b, i, NonAscii))

\* the ASCII bytes from i up to j, the next lead byte, are copied
Utf8Run(b, i, acc, j) ==
  IF j > Len(b) THEN [ok |-> TRUE, s |-> acc \o SubSeq(b, i, j - 1)]
  ELSE Utf8Char(b, j, acc \o SubSeq(b, i, j - 1), Utf8Width(b[j]))

\* the sequence of w bytes at index j
Utf8Char(b, j, acc, w) ==
  IF w = 0 \/ j + w - 1 > Len(b) THEN [ok |-> FALSE]
  ELSE IF ~Utf8SecondOk(b[j], b[j + 1]) THEN [ok |-> FALSE]
  ELSE IF \E m \in (j + 2)..(j + w - 1) : ~IsCont(b[m]) THEN [ok |-> FALSE]
  ELSE Utf8From(b, j + w, Append(acc, Utf8CodePoint(b, j, w)))

Utf8Decode(b) == Utf8From(b, 1, <<>>)

(***************************************************************************)
(* json.loads on a str.  The scanner follows json.decoder and json.scanner *)
(* of the standard library: optional whitespace, one value, optional       *)
(* whitespace, and then the end of the text ("Extra data" otherwise).  A   *)
(* result is [ok |-> TRUE, v |-> value, i |-> index after the value], or   *)
(* [ok |-> FALSE] where Python raises JSONDecodeError.  Numbers are the    *)
(* integers of the grammar; fractions, exponents, NaN and Infinity, and    *)
(* surrogate pairs in \u escapes are not written by the modelled clients.  *)
(***************************************************************************)
JNull == [k |-> "null", v |-> 0]

JBool(b) == [k |-> "bool", v |-> b]

JNum(n) == [k |-> "num", v |-> n]

JStr(s) == [k |-> "str", v |-> s]

JArr(a) == [k |-> "arr", v |-> a]

JObj(pairs) == [k |-> "obj", v |-> pairs]

Fail == [ok |-> FALSE]

\* the characters json's WHITESPACE matches
Whitespace == {32, 9, 10, 13}

\* the characters 0 to 9
DigitChars == 48..57

IsDigit(c) == c \in DigitChars

\* WHITESPACE.match(s, i).end()
SkipWs(s, i) == FirstNotIn(s, i, Whitespace)

\* s starts with the characters of lit at index i
StartsWith(s, i, lit) ==
  /\ i + Len(lit) - 1 <= Len(s)
  /\ \A j \in 1..Len(lit) : s[i + j - 1] = lit[j]

HexVal(c) ==
  IF IsDigit(c) THEN c - 48
  ELSE IF c >= 97 /\ c <= 102 THEN c - 87
  ELSE IF c >= 65 /\ c <= 70 THEN c - 55
  ELSE -1

\* The character a backslash escape stands for; -1 for an invalid escape.
Unescape(c) ==
  IF c \in {34, 92, 47} THEN c
  ELSE IF c = 98 THEN 8
  ELSE IF c = 102 THEN 12
  ELSE IF c = 110 THEN 10
  ELSE IF c = 114 THEN 13
  ELSE IF c = 116 THEN 9
  ELSE -1

\* a character that ends a run of literal characters of a string
EndsChunk == {34, 92} \cup 0..31

\* the code point of \uXXXX, whose four digits start at index j
HexEscape(s, j) ==
  HexVal(s[j]) * 4096 + HexVal(s[j + 1]) * 256 + HexVal(s[j + 2]) * 16
    + HexVal(s[j + 3])

\* py_scanstring from index i, the character after the opening quote; the
\* result is [ok, v |-> the str, i |-> index after the closing quote]
RECURSIVE ScanString(_, _, _), ScanChunk(_, _, _)
ScanString(s, i, acc) ==
  ScanChunk(s, FirstIn(s, i, EndsChunk),
            acc \o SubSeq(s, i, FirstIn(s, i, EndsChunk) - 1))

\* at index j, the first quote, backslash or control character
ScanChunk(s, j, acc) ==
  IF j > Len(s) THEN Fail
  ELSE IF s[j] = 34 THEN [ok |-> TRUE, v |-> acc, i |-> j + 1]
  ELSE IF s[j] < 32 THEN Fail
  ELSE IF j + 1 > Len(s) THEN Fail
  ELSE IF s[j + 1] = 117
    THEN IF j + 5 > Len(s) \/ \E m \in (j + 2)..(j + 5) : HexVal(s[m]) < 0
           THEN Fail
         ELSE ScanString(s, j + 6, Append(acc, HexEscape(s, j + 2)))
  ELSE IF Unescape(s[j + 1]) < 0 THEN Fail
  ELSE ScanString(s, j + 2, Append(acc, Unescape(s[j + 1])))

\* int() of the digits s[i..j]
RECURSIVE DigitsValue(_, _, _)
DigitsValue(s, i, j) ==
  IF j < i THEN 0 ELSE 10 * DigitsValue(s, i, j - 1) + (s[j] - 48)

\* the digits s[i..j-1] as a number, negated for sign = -1
Number(s, i, j, sign) ==
  [ok |-> TRUE, v |-> JNum(sign * DigitsValue(s, i, j - 1)), i |-> j]

\* NUMBER_RE's integer part at index i: 0, or a nonzero digit and more digits
ScanDigits(s, i, sign) ==
  IF i > Len(s) \/ ~IsDigit(s[i]) THEN Fail
  ELSE IF s[i] = 48 THEN Number(s, i, i + 1, sign)
  ELSE Number(s, i, FirstNotIn(s, i, DigitChars), sign)

ScanNumber(s, i) ==
  IF s[i] = 45 THEN ScanDigits(s, i + 1, -1) ELSE ScanDigits(s, i, 1)

\* dict item assignment: a repeated key keeps its place and takes the new value
DictSet(pairs, key, val) ==
  IF \E j \in 1..Len(pairs) : pairs[j][1] = key
    THEN [j \in 1..Len(pairs) |->
            IF pairs[j][1] = key THEN <<key, val>> ELSE pairs[j]]
  ELSE Append(pairs, <<key, val>>)

\* a scanned str as a value
AsString(r) == IF r.ok THEN [ok |-> TRUE, v |-> JStr(r.v), i |-> r.i] ELSE Fail

RECURSIVE ScanOnce(_, _), ObjectBody(_, _), ArrayBody(_, _),
          ParseMembers(_, _, _), MemberColon(_, _, _), MemberValue(_, _, _, _),
          MemberStore(_, _, _, _), MemberEnd(_, _, _), MemberNext(_, _, _),
          ParseElements(_, _, _), ElementStore(_, _, _), ElementEnd(_, _, _)
\* scan_once: the value that starts at index i
ScanOnce(s, i) ==
  IF i > Len(s) THEN Fail
  ELSE IF s[i] = 34 THEN AsString(ScanString(s, i + 1, <<>>))
  ELSE IF s[i] = 123 THEN ObjectBody(s, SkipWs(s, i + 1))
  ELSE IF s[i] = 91 THEN ArrayBody(s, SkipWs(s, i + 1))
  ELSE IF StartsWith(s, i, <<110, 117, 108, 108>>)
    THEN [ok |-> TRUE, v |-> JNull, i |-> i + 4]
  ELSE IF StartsWith(s, i, <<116, 114, 117, 101>>)
    THEN [ok |-> TRUE, v |-> JBool(TRUE), i |-> i + 4]
  ELSE IF StartsWith(s, i, <<102, 97, 108, 115, 101>>)
    THEN [ok |-> TRUE, v |-> JBool(FALSE), i |-> i + 5]
  ELSE IF s[i] = 45 \/ IsDigit(s[i]) THEN ScanNumber(s, i)
  ELSE Fail

\* JSONObject, at index j: the first character after { and whitespace
ObjectBody(s, j) ==
  IF j > Len(s) THEN Fail
  ELSE IF s[j] = 125 THEN [ok |-> TRUE, v |-> JObj(<<>>), i |-> j + 1]
  ELSE IF s[j] # 34 THEN Fail
  ELSE ParseMembers(s, j, <<>>)

\* JSONObject's loop, at the opening quote of a key
ParseMembers(s, i, pairs) == MemberColon(s, pairs, ScanString(s, i + 1, <<>>))

\* the key is scanned: whitespace, then the colon
MemberColon(s, pairs, key) ==
  IF ~key.ok THEN Fail ELSE MemberValue(s, pairs, key.v, SkipWs(s, key.i))

\* at index c, where the colon must be: whitespace, then the value
MemberValue(s, pairs, key, c) ==
  IF c > Len(s) \/ s[c] # 58 THEN Fail
  ELSE MemberStore(s, pairs, key, ScanOnce(s, SkipWs(s, c + 1)))

\* the value is scanned: it is stored under the key
MemberStore(s, pairs, key, val) ==
  IF ~val.ok THEN Fail
  ELSE MemberEnd(s, DictSet(pairs, key, val.v), SkipWs(s, val.i))

\* at index d, after the value and whitespace: } ends the object, a comma
\* goes on
MemberEnd(s, pairs, d) ==
  IF d > Len(s) THEN Fail
  ELSE IF s[d] = 125 THEN [ok |-> TRUE, v |-> JObj(pairs), i |-> d + 1]
  ELSE IF s[d] # 44 THEN Fail
  ELSE MemberNext(s, pairs, SkipWs(s, d + 1))

\* at index n, after a comma and whitespace: the next key must open
MemberNext(s, pairs, n) ==
  IF n > Len(s) \/ s[n] # 34 THEN Fail ELSE ParseMembers(s, n, pairs)

\* JSONArray, at index j: the first character after [ and whitespace
ArrayBody(s, j) ==
  IF j > Len(s) THEN Fail
  ELSE IF s[j] = 93 THEN [ok |-> TRUE, v |-> JArr(<<>>), i |-> j + 1]
  ELSE ParseElements(s, j, <<>>)

\* JSONArray's loop, at the start of an element
ParseElements(s, i, elems) == ElementStore(s, elems, ScanOnce(s, i))

ElementStore(s, elems, val) ==
  IF ~val.ok THEN Fail
  ELSE ElementEnd(s, Append(elems, val.v), SkipWs(s, val.i))

\* at index d, after the element and whitespace: ] ends the array
ElementEnd(s, elems, d) ==
  IF d > Len(s) THEN Fail
  ELSE IF s[d] = 93 THEN [ok |-> TRUE, v |-> JArr(elems), i |-> d + 1]
  ELSE IF s[d] # 44 THEN Fail
  ELSE ParseElements(s, SkipWs(s, d + 1), elems)

\* the end of JSONDecoder.decode: only whitespace may follow the value
WholeText(s, r) ==
  IF ~r.ok THEN Fail
  ELSE IF SkipWs(s, r.i) # Len(s) + 1 THEN Fail
  ELSE [ok |-> TRUE, v |-> r.v]

\* json.loads(s)
JsonLoads(s) == WholeText(s, ScanOnce(s, SkipWs(s, 1)))

(***************************************************************************)
(* json.loads(buffer.decode('utf-8')) of _handle_client.  The two failures *)
(* are different exceptions: "unicode" is UnicodeDecodeError, "json" is    *)
(* json.JSONDecodeError.                                                   *)
(***************************************************************************)
LoadsResult(doc) ==
  IF doc.ok THEN [ok |-> TRUE, v |-> doc.v] ELSE [ok |-> FALSE, exc |-> "json"]

DecodeText(text) ==
  IF text.ok THEN LoadsResult(JsonLoads(text.s))
  ELSE [ok |-> FALSE, exc |-> "unicode"]

DecodeBuffer(buffer) == DecodeText(Utf8Decode(buffer))
(***************************************************************************)
(* The registry of _execute_command_internal.  Every key of the handlers   *)
(* dict is the name of the method it maps to, so a handler is identified   *)
(* by its key; the keys are Python strs.                                   *)
(***************************************************************************)
\* the base handlers, always available
base_handlers ==
  {Str(<<"g","e","t","_","s","c","e","n","e","_","i","n","f","o">>),
   Str(<<"g","e","t","_","o","b","j","e","c","t","_","i","n","f","o">>),
   Str(<<"e","x","e","c","u","t","e","_","c","o","d","e">>),
   Str(<<"a","d","d","_","p","r","i","m","i","t","i","v","e">>),
   Str(<<"a","d","d","_","c","u","r","v","e">>),
   Str(<<"a","d","d","_","t","e","x","t">>),
   Str(<<"a","d","d","_","e","m","p","t","y">>),
   Str(<<"a","d","d","_","l","i","g","h","t">>),
   Str(<<"a","d","d","_","c","a","m","e","r","a">>),
   Str(<<"t","r","a","n","s","f","o","r","m","_","o","b","j","e","c","t">>),
   Str(<<"d","u","p","l","i","c","a","t","e","_","o","b","j","e","c","t">>),
   Str(<<"d","e","l","e","t","e","_","o","b","j","e","c","t">>),
   Str(<<"r","e","n","a","m","e","_","o","b","j","e","c","t">>),
   Str(<<"p","a","r","e","n","t","_","o","b","j","e","c","t">>),
   Str(<<"j","o","i","n","_","o","b","j","e","c","t","s">>),
   Str(<<"e","n","t","e","r","_","e","d","i","t","_","m","o","d","e">>),
   Str(<<"e","x","i","t","_","e","d","i","t","_","m","o","d","e">>),
   Str(<<"s","e","l","e","c","t","_","a","l","l">>),
   Str(<<"e","x","t","r","u","d","e","_","m","e","s","h">>),
   Str(<<"s","u","b","d","i","v","i","d","e","_","m","e","s","h">>),
   Str(<<"b","e","v","e","l","_","m","e","s","h">>),
   Str(<<"i","n","s","e","t","_","f","a","c","e","s">>),
   Str(<<"l","o","o","p","_","c","u","t">>),
   Str(<<"m","e","r","g","e","_","v","e","r","t","i","c","e","s">>),
   Str(<<"a","d","d","_","m","o","d","i","f","i","e","r">>),
   Str(<<"r","e","m","o","v","e","_","m","o","d","i","f","i","e","r">>),
   Str(<<"a","p","p","l","y","_","m","o","d","i","f","i","e","r">>),
   Str(<<"l","i","s","t","_","m","o","d","i","f","i","e","r","s">>),
   Str(<<"c","r","e","a","t","e","_","m","a","t","e","r","i","a","l">>),
   Str(<<"a","s","s","i","g","n","_","m","a","t","e","r","i","a","l">>),
   Str(<<"s","e","t","_","m","a","t","e","r",
         "i","a","l","_","c","o","l","o","r">>),
   Str(<<"s","e","t","_","s","m","o","o","t",
         "h","_","s","h","a","d","i","n","g">>),
   Str(<<"s","e","t","_","k","e","y","f","r","a","m","e">>),
   Str(<<"s","e","t","_","f","r","a","m","e">>),
   Str(<<"g","e","t","_","f","r","a","m","e","_","r","a","n","g","e">>),
   Str(<<"s","e","t","_","r","e","n","d","e",
         "r","_","s","e","t","t","i","n","g","s">>),
   Str(<<"r","e","n","d","e","r","_","i","m","a","g","e">>),
   Str(<<"r","e","n","d","e","r","_","a","n","i","m","a","t","i","o","n">>),
   Str(<<"c","r","e","a","t","e","_","c",
         "o","l","l","e","c","t","i","o","n">>),
   Str(<<"l","i","n","k","_","t","o","_","c",
         "o","l","l","e","c","t","i","o","n">>),
   Str(<<"g","e","t","_","p","o","l","y","h","a",
         "v","e","n","_","s","t","a","t","u","s">>),
   Str(<<"g","e","t","_","h","y","p","e","r",
         "3","d","_","s","t","a","t","u","s">>)}

\* the handlers added while scene.blendermcp_use_polyhaven is set
polyhaven_handlers ==
  {Str(<<"g","e","t","_","p","o","l","y","h","a","v","e",
         "n","_","c","a","t","e","g","o","r","i","e","s">>),
   Str(<<"s","e","a","r","c","h","_","p","o","l","y",
         "h","a","v","e","n","_","a","s","s","e","t","s">>),
   Str(<<"d","o","w","n","l","o","a","d","_","p","o","l",
         "y","h","a","v","e","n","_","a","s","s","e","t">>),
   Str(<<"s","e","t","_","t","e","x","t","u","r","e">>)}

\* the handlers added while scene.blendermcp_use_hyper3d is set
hyper3d_handlers ==
  {Str(<<"c","r","e","a","t","e","_","r","o","d","i","n","_","j","o","b">>),
   Str(<<"p","o","l","l","_","r","o","d","i","n",
         "_","j","o","b","_","s","t","a","t","u","s">>),
   Str(<<"i","m","p","o","r","t","_","g","e","n","e",
         "r","a","t","e","d","_","a","s","s","e","t">>)}

\* the keys that the messages below name
add_text ==
  Str(<<"a","d","d","_","t","e","x","t">>)

exit_edit_mode ==
  Str(<<"e","x","i","t","_","e","d","i","t","_","m","o","d","e">>)

get_frame_range ==
  Str(<<"g","e","t","_","f","r","a","m","e","_","r","a","n","g","e">>)

search_polyhaven_assets ==
  Str(<<"s","e","a","r","c","h","_","p","o","l","y",
        "h","a","v","e","n","_","a","s","s","e","t","s">>)

create_rodin_job ==
  Str(<<"c","r","e","a","t","e","_","r","o","d","i","n","_","j","o","b">>)


(***************************************************************************)
(* Dispatch: execute_command and _execute_command_internal.  A Response is *)
(* a dict, modelled as a record whose fields are its keys.  A message is   *)
(* [text, arg]: the text of the f-string or of the exception, and the str  *)
(* interpolated into it.  What a handler body does is the Scene Engine's   *)
(* or the Asset Provider's business: its outcome is "return" (a value      *)
(* json.dumps accepts), "unserializable" (a value json.dumps rejects) or   *)
(* "raise".                                                                *)
(***************************************************************************)
Outcomes == {"return", "unserializable", "raise"}

KeyType == Str(<<"t","y","p","e">>)

KeyParams == Str(<<"p","a","r","a","m","s">>)

\* dict.get(key, default)
DictGet(obj, key, default) ==
  IF \E j \in 1..Len(obj.v) : obj.v[j][1] = key
    THEN obj.v[CHOOSE j \in 1..Len(obj.v) : obj.v[j][1] = key][2]
  ELSE default

RECURSIVE DecimalDigits(_)
DecimalDigits(n) ==
  IF n < 10 THEN <<48 + n>>
  ELSE Append(DecimalDigits(n \div 10), 48 + (n % 10))

\* str(v) as an f-string interpolates it, for the values a dict key can be
PyStr(v) ==
  CASE v.k = "str" -> v.v
    [] v.k = "null" -> Str(<<"N","o","n","e">>)
    [] v.k = "bool" -> IF v.v THEN Str(<<"T","r","u","e">>)
                       ELSE Str(<<"F","a","l","s","e">>)
    [] v.k = "num" -> IF v.v < 0 THEN <<45>> \o DecimalDigits(0 - v.v)
                      ELSE DecimalDigits(v.v)

\* lists and dicts are unhashable: a dict lookup with one raises TypeError
Hashable(v) == v.k \notin {"arr", "obj"}

Success(result) == [status |-> "success", result |-> result]

\* a variant of Error: an error Response that also keeps a result key
ErrorWithResult(message) ==
  [status |-> "error", message |-> message, result |-> <<>>]

Error(message) == [status |-> "error", message |-> message]

UnknownCommand(cmd_type) ==
  Error([text |-> "Unknown command type: ", arg |-> PyStr(cmd_type)])

\* a variant of handlers: the dict built once, when both flags were off
handlersBuiltOnce(use_polyhaven, use_hyper3d) == base_handlers

\* the handlers dict built by one call, from the scene's flags at that moment
handlers(use_polyhaven, use_hyper3d) ==
  base_handlers
    \cup (IF use_polyhaven THEN polyhaven_handlers ELSE {})
    \cup (IF use_hyper3d THEN hyper3d_handlers ELSE {})

\* a variant of Lookup: the optional handlers are found whatever the flags say
LookupUngated(cmd_type, use_polyhaven, use_hyper3d) ==
  IF cmd_type.k = "str"
       /\ cmd_type.v \in
            base_handlers \cup polyhaven_handlers \cup hyper3d_handlers
    THEN cmd_type.v
  ELSE <<>>

\* handlers.get(cmd_type): the handler's name, or <<>> for None
Lookup(cmd_type, use_polyhaven, use_hyper3d) ==
  IF cmd_type.k = "str" /\ cmd_type.v \in handlers(use_polyhaven, use_hyper3d)
    THEN cmd_type.v
  ELSE <<>>

\* a def's parameters after self: their names in order, how many of the last
\* ones have a default, and whether **kwargs takes any other name
Sig(names, defaults, kwargs) ==
  [names |-> names, defaults |-> defaults, kwargs |-> kwargs]

\* the parameters of the method that each handlers entry maps to
signature(name) ==
  CASE name = Str(<<"g","e","t","_","s","c","e",
                    "n","e","_","i","n","f","o">>) ->
        Sig(<<>>,
            0, FALSE)
    [] name = Str(<<"g","e","t","_","o","b","j",
                    "e","c","t","_","i","n","f","o">>) ->
        Sig(<<Str(<<"n","a","m","e">>)>>,
            0, FALSE)
    [] name = Str(<<"e","x","e","c","u","t","e","_","c","o","d","e">>) ->
        Sig(<<Str(<<"c","o","d","e">>)>>,
            0, FALSE)
    [] name = Str(<<"a","d","d","_","p","r","i","m","i","t","i","v","e">>) ->
        Sig(<<Str(<<"p","r","i","m","i","t","i",
                   "v","e","_","t","y","p","e">>),
             Str(<<"l","o","c","a","t","i","o","n">>),
             Str(<<"r","o","t","a","t","i","o","n">>),
             Str(<<"s","c","a","l","e">>),
             Str(<<"n","a","m","e">>)>>,
            5, FALSE)
    [] name = Str(<<"a","d","d","_","c","u","r","v","e">>) ->
        Sig(<<Str(<<"c","u","r","v","e","_","t","y","p","e">>),
             Str(<<"l","o","c","a","t","i","o","n">>),
             Str(<<"n","a","m","e">>)>>,
            3, FALSE)
    [] name = Str(<<"a","d","d","_","t","e","x","t">>) ->
        Sig(<<Str(<<"t","e","x","t">>),
             Str(<<"l","o","c","a","t","i","o","n">>),
             Str(<<"n","a","m","e">>)>>,
            3, FALSE)
    [] name = Str(<<"a","d","d","_","e","m","p","t","y">>) ->
        Sig(<<Str(<<"e","m","p","t","y","_","t","y","p","e">>),
             Str(<<"l","o","c","a","t","i","o","n">>),
             Str(<<"n","a","m","e">>)>>,
            3, FALSE)
    [] name = Str(<<"a","d","d","_","l","i","g","h","t">>) ->
        Sig(<<Str(<<"l","i","g","h","t","_","t","y","p","e">>),
             Str(<<"l","o","c","a","t","i","o","n">>),
             Str(<<"e","n","e","r","g","y">>),
             Str(<<"n","a","m","e">>)>>,
            4, FALSE)
    [] name = Str(<<"a","d","d","_","c","a","m","e","r","a">>) ->
        Sig(<<Str(<<"l","o","c","a","t","i","o","n">>),
             Str(<<"r","o","t","a","t","i","o","n">>),
             Str(<<"n","a","m","e">>)>>,
            3, FALSE)
    [] name = Str(<<"t","r","a","n","s","f","o","r",
                    "m","_","o","b","j","e","c","t">>) ->
        Sig(<<Str(<<"n","a","m","e">>),
             Str(<<"l","o","c","a","t","i","o","n">>),
             Str(<<"r","o","t","a","t","i","o","n">>),
             Str(<<"s","c","a","l","e">>),
             Str(<<"r","e","l","a","t","i","v","e">>)>>,
            4, FALSE)
    [] name = Str(<<"d","u","p","l","i","c","a","t",
                    "e","_","o","b","j","e","c","t">>) ->
        Sig(<<Str(<<"n","a","m","e">>),
             Str(<<"l","i","n","k","e","d">>)>>,
            1, FALSE)
    [] name = Str(<<"d","e","l","e","t","e","_","o","b","j","e","c","t">>) ->
        Sig(<<Str(<<"n","a","m","e">>)>>,
            0, FALSE)
    [] name = Str(<<"r","e","n","a","m","e","_","o","b","j","e","c","t">>) ->
        Sig(<<Str(<<"o","l","d","_","n","a","m","e">>),
             Str(<<"n","e","w","_","n","a","m","e">>)>>,
            0, FALSE)
    [] name = Str(<<"p","a","r","e","n","t","_","o","b","j","e","c","t">>) ->
        Sig(<<Str(<<"c","h","i","l","d","_","n","a","m","e">>),
             Str(<<"p","a","r","e","n","t","_","n","a","m","e">>),
             Str(<<"k","e","e","p","_","t","r",
                   "a","n","s","f","o","r","m">>)>>,
            1, FALSE)
    [] name = Str(<<"j","o","i","n","_","o","b","j","e","c","t","s">>) ->
        Sig(<<Str(<<"o","b","j","e","c","t","_","n","a","m","e","s">>)>>,
            0, FALSE)
    [] name = Str(<<"e","n","t","e","r","_","e",
                    "d","i","t","_","m","o","d","e">>) ->
        Sig(<<Str(<<"o","b","j","e","c","t","_","n","a","m","e">>)>>,
            0, FALSE)
    [] name = Str(<<"e","x","i","t","_","e","d",
                    "i","t","_","m","o","d","e">>) ->
        Sig(<<>>,
            0, FALSE)
    [] name = Str(<<"s","e","l","e","c","t","_","a","l","l">>) ->
        Sig(<<Str(<<"a","c","t","i","o","n">>)>>,
            1, FALSE)
    [] name = Str(<<"e","x","t","r","u","d","e","_","m","e","s","h">>) ->
        Sig(<<Str(<<"o","b","j","e","c","t","_","n","a","m","e">>),
             Str(<<"d","i","s","t","a","n","c","e">>),
             Str(<<"d","i","r","e","c","t","i","o","n">>)>>,
            2, FALSE)
    [] name = Str(<<"s","u","b","d","i","v","i",
                    "d","e","_","m","e","s","h">>) ->
        Sig(<<Str(<<"o","b","j","e","c","t","_","n","a","m","e">>),
             Str(<<"c","u","t","s">>)>>,
            1, FALSE)
    [] name = Str(<<"b","e","v","e","l","_","m","e","s","h">>) ->
        Sig(<<Str(<<"o","b","j","e","c","t","_","n","a","m","e">>),
             Str(<<"o","f","f","s","e","t">>),
             Str(<<"s","e","g","m","e","n","t","s">>)>>,
            2, FALSE)
    [] name = Str(<<"i","n","s","e","t","_","f","a","c","e","s">>) ->
        Sig(<<Str(<<"o","b","j","e","c","t","_","n","a","m","e">>),
             Str(<<"t","h","i","c","k","n","e","s","s">>)>>,
            1, FALSE)
    [] name = Str(<<"l","o","o","p","_","c","u","t">>) ->
        Sig(<<Str(<<"o","b","j","e","c","t","_","n","a","m","e">>),
             Str(<<"n","u","m","b","e","r","_","c","u","t","s">>)>>,
            1, FALSE)
    [] name = Str(<<"m","e","r","g","e","_","v",
                    "e","r","t","i","c","e","s">>) ->
        Sig(<<Str(<<"o","b","j","e","c","t","_","n","a","m","e">>),
             Str(<<"m","e","r","g","e","_","t","y","p","e">>)>>,
            1, FALSE)
    [] name = Str(<<"a","d","d","_","m","o","d","i","f","i","e","r">>) ->
        Sig(<<Str(<<"o","b","j","e","c","t","_","n","a","m","e">>),
             Str(<<"m","o","d","i","f","i","e","r","_","t","y","p","e">>)>>,
            0, TRUE)
    [] name = Str(<<"r","e","m","o","v","e","_",
                    "m","o","d","i","f","i","e","r">>) ->
        Sig(<<Str(<<"o","b","j","e","c","t","_","n","a","m","e">>),
             Str(<<"m","o","d","i","f","i","e","r","_","n","a","m","e">>)>>,
            0, FALSE)
    [] name = Str(<<"a","p","p","l","y","_","m",
                    "o","d","i","f","i","e","r">>) ->
        Sig(<<Str(<<"o","b","j","e","c","t","_","n","a","m","e">>),
             Str(<<"m","o","d","i","f","i","e","r","_","n","a","m","e">>)>>,
            0, FALSE)
    [] name = Str(<<"l","i","s","t","_","m","o",
                    "d","i","f","i","e","r","s">>) ->
        Sig(<<Str(<<"o","b","j","e","c","t","_","n","a","m","e">>)>>,
            0, FALSE)
    [] name = Str(<<"c","r","e","a","t","e","_",
                    "m","a","t","e","r","i","a","l">>) ->
        Sig(<<Str(<<"n","a","m","e">>),
             Str(<<"c","o","l","o","r">>),
             Str(<<"m","e","t","a","l","l","i","c">>),
             Str(<<"r","o","u","g","h","n","e","s","s">>)>>,
            3, FALSE)
    [] name = Str(<<"a","s","s","i","g","n","_",
                    "m","a","t","e","r","i","a","l">>) ->
        Sig(<<Str(<<"o","b","j","e","c","t","_","n","a","m","e">>),
             Str(<<"m","a","t","e","r","i","a","l","_","n","a","m","e">>)>>,
            0, FALSE)
    [] name = Str(<<"s","e","t","_","m","a","t","e","r",
                    "i","a","l","_","c","o","l","o","r">>) ->
        Sig(<<Str(<<"m","a","t","e","r","i","a","l","_","n","a","m","e">>),
             Str(<<"c","o","l","o","r">>)>>,
            0, FALSE)
    [] name = Str(<<"s","e","t","_","s","m","o","o","t",
                    "h","_","s","h","a","d","i","n","g">>) ->
        Sig(<<Str(<<"o","b","j","e","c","t","_","n","a","m","e">>),
             Str(<<"s","m","o","o","t","h">>)>>,
            1, FALSE)
    [] name = Str(<<"s","e","t","_","k","e","y","f","r","a","m","e">>) ->
        Sig(<<Str(<<"o","b","j","e","c","t","_","n","a","m","e">>),
             Str(<<"d","a","t","a","_","p","a","t","h">>),
             Str(<<"f","r","a","m","e">>),
             Str(<<"v","a","l","u","e">>)>>,
            2, FALSE)
    [] name = Str(<<"s","e","t","_","f","r","a","m","e">>) ->
        Sig(<<Str(<<"f","r","a","m","e">>)>>,
            0, FALSE)
    [] name = Str(<<"g","e","t","_","f","r","a",
                    "m","e","_","r","a","n","g","e">>) ->
        Sig(<<>>,
            0, FALSE)
    [] name = Str(<<"s","e","t","_","r","e","n","d","e",
                    "r","_","s","e","t","t","i","n","g","s">>) ->
        Sig(<<Str(<<"e","n","g","i","n","e">>),
             Str(<<"s","a","m","p","l","e","s">>),
             Str(<<"r","e","s","o","l","u","t","i","o","n","_","x">>),
             Str(<<"r","e","s","o","l","u","t","i","o","n","_","y">>)>>,
            4, FALSE)
    [] name = Str(<<"r","e","n","d","e","r","_","i","m","a","g","e">>) ->
        Sig(<<Str(<<"f","i","l","e","p","a","t","h">>)>>,
            1, FALSE)
    [] name = Str(<<"r","e","n","d","e","r","_","a",
                    "n","i","m","a","t","i","o","n">>) ->
        Sig(<<Str(<<"f","i","l","e","p","a","t","h">>)>>,
            1, FALSE)
    [] name = Str(<<"c","r","e","a","t","e","_","c",
                    "o","l","l","e","c","t","i","o","n">>) ->
        Sig(<<Str(<<"n","a","m","e">>)>>,
            0, FALSE)
    [] name = Str(<<"l","i","n","k","_","t","o","_","c",
                    "o","l","l","e","c","t","i","o","n">>) ->
        Sig(<<Str(<<"o","b","j","e","c","t","_","n","a","m","e">>),
             Str(<<"c","o","l","l","e","c","t",
                   "i","o","n","_","n","a","m","e">>)>>,
            0, FALSE)
    [] name = Str(<<"g","e","t","_","p","o","l","y","h","a",
                    "v","e","n","_","s","t","a","t","u","s">>) ->
        Sig(<<>>,
            0, FALSE)
    [] name = Str(<<"g","e","t","_","h","y","p","e","r",
                    "3","d","_","s","t","a","t","u","s">>) ->
        Sig(<<>>,
            0, FALSE)
    [] name = Str(<<"g","e","t","_","p","o","l","y","h","a","v","e",
                    "n","_","c","a","t","e","g","o","r","i","e","s">>) ->
        Sig(<<Str(<<"a","s","s","e","t","_","t","y","p","e">>)>>,
            0, FALSE)
    [] name = Str(<<"s","e","a","r","c","h","_","p","o","l","y",
                    "h","a","v","e","n","_","a","s","s","e","t","s">>) ->
        Sig(<<Str(<<"a","s","s","e","t","_","t","y","p","e">>),
             Str(<<"c","a","t","e","g","o","r","i","e","s">>)>>,
            2, FALSE)
    [] name = Str(<<"d","o","w","n","l","o","a","d","_","p","o","l",
                    "y","h","a","v","e","n","_","a","s","s","e","t">>) ->
        Sig(<<Str(<<"a","s","s","e","t","_","i","d">>),
             Str(<<"a","s","s","e","t","_","t","y","p","e">>),
             Str(<<"r","e","s","o","l","u","t","i","o","n">>),
             Str(<<"f","i","l","e","_","f","o","r","m","a","t">>)>>,
            2, FALSE)
    [] name = Str(<<"s","e","t","_","t","e","x","t","u","r","e">>) ->
        Sig(<<Str(<<"o","b","j","e","c","t","_","n","a","m","e">>),
             Str(<<"t","e","x","t","u","r","e","_","i","d">>)>>,
            0, FALSE)
    [] name = Str(<<"c","r","e","a","t","e","_","r",
                    "o","d","i","n","_","j","o","b">>) ->
        Sig(<<>>,
            0, TRUE)
    [] name = Str(<<"p","o","l","l","_","r","o","d","i","n",
                    "_","j","o","b","_","s","t","a","t","u","s">>) ->
        Sig(<<>>,
            0, TRUE)
    [] name = Str(<<"i","m","p","o","r","t","_","g","e","n","e",
                    "r","a","t","e","d","_","a","s","s","e","t">>) ->
        Sig(<<>>,
            0, TRUE)

\* the keys of a dict
Keys(obj) == {obj.v[j][1] : j \in 1..Len(obj.v)}

\* Python binds the keyword arguments keys to the parameters sig
BindsTo(sig, keys) ==
  /\ \A k \in keys : sig.kwargs \/ \E j \in 1..Len(sig.names) : sig.names[j] = k
  /\ \A j \in 1..(Len(sig.names) - sig.defaults) : sig.names[j] \in keys

(***************************************************************************)
(* Handler bodies, for the handlers whose result depends on their          *)
(* parameters.  bpy is what they read of Blender: the objects of the scene *)
(* (name, location, rotation_euler as the rotations applied, scale) and    *)
(* the Rodin mode of the scene.  A body ends as                            *)
(* [raised, objects]: whether an exception left it and the objects then.   *)
(***************************************************************************)
Bpy(objects, hyper3d_mode) ==
  [objects |-> objects, hyper3d_mode |-> hyper3d_mode]

Ends(raised, objects) == [raised |-> raised, objects |-> objects]

\* bool(v)
Truthy(v) ==
  CASE v.k = "null" -> FALSE
    [] v.k = "bool" -> v.v
    [] v.k = "num" -> v.v # 0
    [] OTHER -> v.v # <<>>

\* the first n items of v are numbers
Numbers(v, n) ==
  v.k = "arr" /\ Len(v.v) >= n /\ \A j \in 1..n : v.v[j].k = "num"

\* mathutils.Vector(v) and mathutils.Euler(v) that an object's location,
\* rotation_euler or scale takes: three numbers
Triple(v) == Numbers(v, 3) /\ Len(v.v) = 3

Floats(v) == [j \in 1..3 |-> v.v[j].v]

\* the keys of primitive_ops
primitive_ops ==
  {Str(<<"C","U","B","E">>), Str(<<"S","P","H","E","R","E">>),
   Str(<<"C","Y","L","I","N","D","E","R">>), Str(<<"C","O","N","E">>),
   Str(<<"T","O","R","U","S">>), Str(<<"M","O","N","K","E","Y">>),
   Str(<<"P","L","A","N","E">>), Str(<<"C","I","R","C","L","E">>)}

\* primitive_ops[primitive_type](): the engine adds an object at the origin
\* and names it; the model's name is the type and the object's position in
\* the scene
Added(objects, primitive_type) ==
  Append(objects,
         [name |-> primitive_type \o <<46>> \o DecimalDigits(Len(objects)),
          location |-> <<0, 0, 0>>, rotation |-> <<<<0, 0, 0>>>>,
          scale |-> <<1, 1, 1>>])

\* the last statements of add_primitive: if name: obj.name = name
Named(objects, i, name) ==
  IF ~Truthy(name) THEN Ends(FALSE, objects)
  ELSE IF name.k # "str" THEN Ends(TRUE, objects)
  ELSE Ends(FALSE, [objects EXCEPT ![i].name = name.v])

\* obj.scale = mathutils.Vector(scale), then the name
Scaled(objects, i, scale, name) ==
  IF ~Triple(scale) THEN Ends(TRUE, objects)
  ELSE Named([objects EXCEPT ![i].scale = Floats(scale)], i, name)

\* obj.rotation_euler = mathutils.Euler(rotation), then the scale
Rotated(objects, i, rotation, scale, name) ==
  IF ~Triple(rotation) THEN Ends(TRUE, objects)
  ELSE Scaled([objects EXCEPT ![i].rotation = <<Floats(rotation)>>], i, scale,
              name)

\* obj.location = mathutils.Vector(location), then the rotation
Located(objects, i, location, rotation, scale, name) ==
  IF ~Triple(location) THEN Ends(TRUE, objects)
  ELSE Rotated([objects EXCEPT ![i].location = Floats(location)], i, rotation,
               scale, name)

add_primitive(params, objects) ==
  LET primitive_type ==
        DictGet(params,
                Str(<<"p","r","i","m","i","t","i","v","e","_","t","y","p","e">>),
                JStr(Str(<<"C","U","B","E">>)))
      origin == JArr(<<JNum(0), JNum(0), JNum(0)>>)
      ones == JArr(<<JNum(1), JNum(1), JNum(1)>>)
  IN  IF primitive_type.k # "str" \/ primitive_type.v \notin primitive_ops
        THEN Ends(TRUE, objects)
      ELSE Located(Added(objects, primitive_type.v), Len(objects) + 1,
                   DictGet(params, Str(<<"l","o","c","a","t","i","o","n">>), origin),
                   DictGet(params, Str(<<"r","o","t","a","t","i","o","n">>), origin),
                   DictGet(params, Str(<<"s","c","a","l","e">>), ones),
                   DictGet(params, Str(<<"n","a","m","e">>), JNull))

\* if scale: ..., the last of transform_object's three changes
Rescale(objects, i, scale, relative) ==
  IF ~Truthy(scale) THEN Ends(FALSE, objects)
  ELSE IF relative
    THEN IF ~Numbers(scale, 3) THEN Ends(TRUE, objects)
         ELSE Ends(FALSE, [objects EXCEPT ![i].scale =
                             [j \in 1..3 |-> @[j] * scale.v[j].v]])
  ELSE IF ~Triple(scale) THEN Ends(TRUE, objects)
  ELSE Ends(FALSE, [objects EXCEPT ![i].scale = Floats(scale)])

\* if rotation: ..., then the scale
Rotate(objects, i, rotation, scale, relative) ==
  IF ~Truthy(rotation) THEN Rescale(objects, i, scale, relative)
  ELSE IF ~Triple(rotation) THEN Ends(TRUE, objects)
  ELSE Rescale([objects EXCEPT ![i].rotation =
                  IF relative THEN Append(@, Floats(rotation))
                  ELSE <<Floats(rotation)>>],
               i, scale, relative)

\* if location: ..., then the rotation
Move(objects, i, location, rotation, scale, relative) ==
  IF ~Truthy(location) THEN Rotate(objects, i, rotation, scale, relative)
  ELSE IF ~Triple(location) THEN Ends(TRUE, objects)
  ELSE Rotate([objects EXCEPT ![i].location =
                 IF relative THEN [j \in 1..3 |-> @[j] + location.v[j].v]
                 ELSE Floats(location)],
              i, rotation, scale, relative)

\* bpy.data.objects.get(name): the object's index, 0 for None
Get(objects, name) ==
  IF name.k = "str" /\ \E i \in 1..Len(objects) : objects[i].name = name.v
    THEN CHOOSE i \in 1..Len(objects) : objects[i].name = name.v
  ELSE 0

transform_object(params, objects) ==
  IF Get(objects, DictGet(params, Str(<<"n","a","m","e">>), JNull)) = 0
    THEN Ends(TRUE, objects)
  ELSE Move(objects, Get(objects, DictGet(params, Str(<<"n","a","m","e">>), JNull)),
            DictGet(params, Str(<<"l","o","c","a","t","i","o","n">>), JNull),
            DictGet(params, Str(<<"r","o","t","a","t","i","o","n">>), JNull),
            DictGet(params, Str(<<"s","c","a","l","e">>), JNull),
            Truthy(DictGet(params, Str(<<"r","e","l","a","t","i","v","e">>), JBool(FALSE))))

\* add_modifier: the object is looked up; a keyword the modifier has no
\* attribute for is skipped (if hasattr(mod, key))
add_modifier(params, objects) ==
  Ends(Get(objects, DictGet(params, Str(<<"o","b","j","e","c","t","_","n","a","m","e">>), JNull)) = 0, objects)

\* the handlers whose whole body is inside try: ... except Exception as e:
\* return {"error": str(e)}; create_rodin_job is so in both of its backends
catching_handlers ==
  {Str(<<"g","e","t","_","s","c","e","n","e","_","i","n","f","o">>),
   Str(<<"g","e","t","_","p","o","l","y","h","a","v","e","n","_","c","a","t","e","g","o","r","i","e","s">>),
   search_polyhaven_assets,
   Str(<<"d","o","w","n","l","o","a","d","_","p","o","l","y","h","a","v","e","n","_","a","s","s","e","t">>),
   Str(<<"s","e","t","_","t","e","x","t","u","r","e">>),
   create_rodin_job}

\* the parameters of the method that a Rodin handler passes *args and
\* **kwargs on to: match bpy.context.scene.blendermcp_hyper3d_mode
backend(name, hyper3d_mode) ==
  CASE name = create_rodin_job ->
         Sig(<<Str(<<"t","e","x","t","_","p","r","o","m","p","t">>),
               Str(<<"i","m","a","g","e","s">>),
               Str(<<"b","b","o","x","_","c","o","n","d","i","t","i","o","n">>)>>, 3, FALSE)
    [] name = Str(<<"p","o","l","l","_","r","o","d","i","n","_","j","o","b","_","s","t","a","t","u","s">>) ->
         IF hyper3d_mode = "MAIN_SITE"
           THEN Sig(<<Str(<<"s","u","b","s","c","r","i","p","t","i","o","n","_","k","e","y">>)>>, 0, FALSE)
         ELSE Sig(<<Str(<<"r","e","q","u","e","s","t","_","i","d">>)>>, 0, FALSE)
    [] name = Str(<<"i","m","p","o","r","t","_","g","e","n","e","r","a","t","e","d","_","a","s","s","e","t">>) ->
         IF hyper3d_mode = "MAIN_SITE"
           THEN Sig(<<Str(<<"t","a","s","k","_","u","u","i","d">>), Str(<<"n","a","m","e">>)>>, 0, FALSE)
         ELSE Sig(<<Str(<<"r","e","q","u","e","s","t","_","i","d">>), Str(<<"n","a","m","e">>)>>, 0, FALSE)

\* the body of handler name run with the keyword arguments params: the
\* bodies above, a Rodin handler's call of its backend (a TypeError when
\* the arguments do not bind), any other body as the engine lets it end
Body(name, params, bpy) ==
  CASE name = Str(<<"a","d","d","_","p","r","i","m","i","t","i","v","e">>) ->
         add_primitive(params, bpy.objects)
    [] name = Str(<<"t","r","a","n","s","f","o","r","m","_","o","b","j","e","c","t">>) ->
         transform_object(params, bpy.objects)
    [] name = Str(<<"a","d","d","_","m","o","d","i","f","i","e","r">>) ->
         add_modifier(params, bpy.objects)
    [] name \in hyper3d_handlers ->
         Ends(~BindsTo(backend(name, bpy.hyper3d_mode), Keys(params)),
              bpy.objects)
    [] OTHER -> Ends(FALSE, bpy.objects)

\* the result of a call: the Response, the handler whose body was entered
\* (<<>> for none), whether an exception was caught on the way, and the
\* objects of the scene afterwards
Call(response, body, raised, objects) ==
  [response |-> response, body |-> body, raised |-> raised,
   objects |-> objects]

\* the handler's result: a value json.dumps accepts or not, which is the dict
\* {"error": str(e)} when the handler caught a failure itself
Result(name, serializable, error) ==
  [handler |-> name, serializable |-> serializable, error |-> error]

\* the handler's exception, caught by except Exception as e
Raised(name, objects) ==
  Call(Error([text |-> "str(e) of the handler's exception", arg |-> name]),
       name, TRUE, objects)

\* the body ran to its end without an exception of its own: the engine or the
\* provider failed in it (outcome "raise"), which leaves the scene as it was,
\* or it returns
Finish(name, outcome, before, after) ==
  IF outcome = "raise"
    THEN IF name \in catching_handlers
           THEN Call(Success(Result(name, TRUE, TRUE)), name, FALSE, before)
         ELSE Raised(name, before)
  ELSE Call(Success(Result(name, outcome = "return", FALSE)), name, FALSE,
            after)

\* result = handler(**params) once the arguments are bound
Run(name, outcome, bpy, ends) ==
  IF ends.raised THEN Raised(name, ends.objects)
  ELSE Finish(name, outcome, bpy.objects, ends.objects)

\* handler(**params) inside the try of _execute_command_internal
CallHandler(name, params, outcome, bpy) ==
  IF params.k # "obj"
    THEN Call(Error([text |-> "argument after ** must be a mapping",
                     arg |-> name]), <<>>, TRUE, bpy.objects)
  ELSE IF ~BindsTo(signature(name), Keys(params))
    THEN Call(Error([text |-> "unexpected or missing argument",
                     arg |-> name]), <<>>, TRUE, bpy.objects)
  ELSE Run(name, outcome, bpy, Body(name, params, bpy))

\* an exception that leaves _execute_command_internal
Raise(text) == [escaped |-> TRUE, text |-> text]

Return(call) == [escaped |-> FALSE, call |-> call]

\* if handler: ... else: ...
Invoke(cmd_type, handler, params, outcome, bpy) ==
  IF handler # <<>> THEN Return(CallHandler(handler, params, outcome, bpy))
  ELSE Return(Call(UnknownCommand(cmd_type), <<>>, FALSE, bpy.objects))

\* handlers.get(cmd_type) and what follows
Dispatch(cmd_type, params, use_polyhaven, use_hyper3d, outcome, bpy) ==
  IF ~Hashable(cmd_type) THEN Raise("unhashable type")
  ELSE Invoke(cmd_type, Lookup(cmd_type, use_polyhaven, use_hyper3d), params,
              outcome, bpy)

_execute_command_internal(command, use_polyhaven, use_hyper3d, outcome, bpy) ==
  IF command.k # "obj" THEN Raise("object has no attribute 'get'")
  ELSE Dispatch(DictGet(command, KeyType, JNull),
                DictGet(command, KeyParams, JObj(<<>>)),
                use_polyhaven, use_hyper3d, outcome, bpy)

\* except Exception as e of execute_command
Catch(r, bpy) ==
  IF r.escaped
    THEN Call(Error([text |-> r.text, arg |-> <<>>]), <<>>, TRUE, bpy.objects)
  ELSE r.call

execute_command(command, use_polyhaven, use_hyper3d, outcome, bpy) ==
  Catch(_execute_command_internal(command, use_polyhaven, use_hyper3d, outcome,
                                  bpy), bpy)

\* json.dumps(response) raises TypeError for a result it cannot serialize
Serializable(response) ==
  response.status = "error" \/ response.result.serializable

\* the Response execute_wrapper hands to client.sendall
WrapperResponse(response) ==
  IF Serializable(response) THEN response
  ELSE Error([text |-> "Object is not JSON serializable", arg |-> <<>>])

(***************************************************************************)
(* Bounds of the model.                                                    *)
(***************************************************************************)
\* connections the listener accepts in one run
MaxConns == 2

\* messages the clients send in one run, over all connections; fewer in some
\* specifications
MaxMessages == 3

\* messages the clients send in one run of Spec and of SpecDispatch
MaxSends == 2

\* messages the client sends in one run of SpecBytes and of SpecWrapper
MaxByteSends == 1

\* calls of start() and stop() in one run
MaxCalls == 2

\* calls of start() and stop() in one run of SpecListener
MaxListenerCalls == 3

\* threads that call start() and stop() at the same time in SpecLifecycle
MaxCallers == 2

\* clients that close their connection in one run
MaxCloses == 1

\* changes of the capability checkboxes in one run
MaxToggles == 2

\* client.recv(8192): the most bytes one read returns
RecvSize == 8192

Conns == 1..MaxConns

Callers == 1..MaxCallers

(***************************************************************************)
(* What clients write: the UTF-8 bytes of a JSON text, laid out as         *)
(* json.dumps lays it out (separators ", " and ": "), non-ASCII characters *)
(* written as themselves.                                                  *)
(***************************************************************************)
Quote(s) == <<34>> \o s \o <<34>>

\* {"type": <type>, "params": <params>}
CommandText(type, params) ==
  Str(<<"{">>) \o Quote(KeyType) \o Str(<<":"," ">>) \o type
    \o Str(<<","," ">>) \o Quote(KeyParams) \o Str(<<":"," ">>) \o params
    \o Str(<<"}">>)

EmptyObject == Str(<<"{","}">>)

EmptyArray == Str(<<"[","]">>)

unknown_cmd == Str(<<"u","n","k","n","o","w","n","_","c","m","d">>)

MsgExitEditMode == Utf8Encode(CommandText(Quote(exit_edit_mode), EmptyObject))

MsgGetFrameRange == Utf8Encode(CommandText(Quote(get_frame_range), EmptyObject))

MsgSearchPolyhaven ==
  Utf8Encode(CommandText(Quote(search_polyhaven_assets), EmptyObject))

MsgCreateRodinJob ==
  Utf8Encode(CommandText(Quote(create_rodin_job), EmptyObject))

MsgUnknownCmd == Utf8Encode(CommandText(Quote(unknown_cmd), EmptyObject))

\* {"params": {}}: no type
MsgNoType ==
  Utf8Encode(Str(<<"{">>) \o Quote(KeyParams) \o Str(<<":"," ">>) \o EmptyObject
               \o Str(<<"}">>))

\* a type that is a list
MsgListType == Utf8Encode(CommandText(EmptyArray, EmptyObject))

\* params that are a list
MsgListParams == Utf8Encode(CommandText(Quote(exit_edit_mode), EmptyArray))

\* a JSON document that is no object
MsgArray == Utf8Encode(EmptyArray)

\* {"type": "add_text", "params": {"text": "é"}}: U+00E9 is two bytes, 0xC3
\* 0xA9, on the wire
MsgAddTextAccent ==
  Utf8Encode(CommandText(Quote(add_text),
    Str(<<"{">>) \o Quote(Str(<<"t","e","x","t">>)) \o Str(<<":"," ">>)
      \o Quote(<<233>>) \o Str(<<"}">>)))

\* one byte that starts no JSON value
MsgBrace == Utf8Encode(Str(<<"}">>))

\* one byte that no UTF-8 text holds
MsgBadByte == <<255>>

(***************************************************************************)
(* State.                                                                  *)
(***************************************************************************)
VARIABLES
  running,        \* self.running
  socket,         \* self.socket: "None", "unbound" (a new socket object) or
                  \* "bound" (bound and listening)
  server_thread,  \* self.server_thread: "None" or "thread"
  listeners,      \* threads inside _server_loop
  accepting,      \* of these, the threads inside self.socket.accept()
  sleeping,       \* of these, the threads inside time.sleep(0.5)
  callers,        \* per calling thread, where it is inside start() or stop():
                  \* "idle" when it is in neither
  use_polyhaven,  \* scene.blendermcp_use_polyhaven
  use_hyper3d,    \* scene.blendermcp_use_hyper3d
  hyper3d_mode,   \* scene.blendermcp_hyper3d_mode: "MAIN_SITE" or "FAL_AI"
  objects,        \* bpy.data.objects, as the handler bodies read them
  pc,             \* per connection, where its _handle_client thread is:
                  \* "none" (not accepted), "loop" (at while self.running),
                  \* "recv" (in client.recv), "closed" (client.close() done)
  leftBy,         \* per connection, how its thread left the loop: "none",
                  \* "stopped" (self.running was false), "disconnected"
                  \* (recv returned b''), "error" (except Exception: break)
  buffer,         \* per connection, the local buffer
  command,        \* per connection, the local command: the cell that every
                  \* execute_wrapper of the connection closes over
  wire,           \* per connection, bytes sent by the client and not yet read
  peer,           \* per connection, the client's end: "open" or "closed"
  outbox,         \* per connection, the Responses sendall has written
  timers,         \* bpy.app.timers: the registered execute_wrapper closures
  executing,      \* the calls of execute_command in progress
  decoded,        \* per connection, the commands decoded so far (history)
  sentMsgs,       \* per connection, the messages the client sent (history)
  reads,          \* per connection, the recv calls that returned data (history)
  log,            \* the finished runs of execute_wrapper (history)
  calls,          \* the start() and stop() calls so far, in order (history)
  toggles,        \* checkbox changes so far
  blendermcp_server,  \* whether bpy.types.blendermcp_server is there
  blendermcp_server_running,  \* scene.blendermcp_server_running
  blendermcp_hyper3d_api_key, \* scene.blendermcp_hyper3d_api_key: "" when
                  \* not given, "free_trial" or "private"
  reports         \* what the status commands returned so far (history)

\* where the listener threads are, when _server_loop is taken step by step
listening == <<accepting, sleeping>>

server == <<running, socket, server_thread, listeners, callers, listening>>

scene == <<use_polyhaven, use_hyper3d, hyper3d_mode, objects>>

connection == <<pc, leftBy, buffer, command, decoded, reads>>

client == <<wire, peer, sentMsgs>>

bridge == <<timers, executing, outbox, log>>

\* the panel's operators and the status commands
panel == <<blendermcp_server, blendermcp_server_running,
           blendermcp_hyper3d_api_key, reports>>

vars == <<server, scene, connection, client, bridge, calls, toggles, panel>>

\* the scene Blender starts with holds a cube
startup_objects ==
  <<[name |-> Str(<<"C","u","b","e">>), location |-> <<0, 0, 0>>,
     rotation |-> <<<<0, 0, 0>>>>, scale |-> <<1, 1, 1>>]>>

\* the cell before the first decode: command is unbound
NoCommand == [id |-> 0, v |-> JNull]

Init ==
  /\ running = FALSE
  /\ socket = "None"
  /\ server_thread = "None"
  /\ listeners = 0
  /\ accepting = 0
  /\ sleeping = 0
  /\ callers = [t \in Callers |-> "idle"]
  /\ use_polyhaven = FALSE
  /\ use_hyper3d = FALSE
  /\ hyper3d_mode = "MAIN_SITE"
  /\ objects = startup_objects
  /\ pc = [c \in Conns |-> "none"]
  /\ leftBy = [c \in Conns |-> "none"]
  /\ buffer = [c \in Conns |-> <<>>]
  /\ command = [c \in Conns |-> NoCommand]
  /\ wire = [c \in Conns |-> <<>>]
  /\ peer = [c \in Conns |-> "none"]
  /\ outbox = [c \in Conns |-> <<>>]
  /\ timers = <<>>
  /\ executing = {}
  /\ decoded = [c \in Conns |-> <<>>]
  /\ sentMsgs = [c \in Conns |-> <<>>]
  /\ reads = [c \in Conns |-> 0]
  /\ log = {}
  /\ calls = <<>>
  /\ toggles = 0
  /\ blendermcp_server = FALSE
  /\ blendermcp_server_running = FALSE
  /\ blendermcp_hyper3d_api_key = ""
  /\ reports = {}

\* the host's main thread is not inside an execute_wrapper
MainIdle == \A e \in executing : e.thread # "main"

(***************************************************************************)
(* Lifecycle: start() and stop() of one BlenderMCPServer object, called on *)
(* the main thread.  Each is one step: the listener sees their effects     *)
(* together.                                                               *)
(***************************************************************************)
\* a variant of stop: it also unregisters the wrappers that wait for the host
stopCancels ==
  /\ MainIdle
  /\ calls' = Append(calls, "stop")
  /\ running' = FALSE
  /\ socket' = "None"
  /\ server_thread' = "None"
  /\ timers' = <<>>
  /\ UNCHANGED <<listeners, callers, listening, scene, connection, client,
                 executing, outbox, log, toggles, panel>>

\* the body of stop(): the listener thread is joined for at most a second and
\* may outlive the call
server_stop ==
  /\ MainIdle
  /\ calls' = Append(calls, "stop")
  /\ running' = FALSE
  /\ socket' = "None"
  /\ server_thread' = "None"
  /\ UNCHANGED <<callers, scene, connection, client, bridge, toggles>>

\* stop() called on the server object
stop ==
  /\ server_stop
  /\ UNCHANGED <<listeners, listening, panel>>

\* a variant of start: no test of self.running, so a running server binds and
\* starts a listener again
startUnchecked(bind_ok) ==
  /\ MainIdle
  /\ calls' = Append(calls, "start")
  /\ IF bind_ok /\ ~running
       THEN /\ running' = TRUE
            /\ socket' = "bound"
            /\ server_thread' = "thread"
            /\ listeners' = listeners + 1
     ELSE \* the port is taken, by this server when it is running
          /\ running' = FALSE
          /\ socket' = "None"
          /\ server_thread' = "None"
          /\ UNCHANGED listeners
  /\ UNCHANGED <<callers, listening, scene, connection, client, bridge,
                 toggles, panel>>

\* a variant of start: the except clause logs and does not call self.stop()
startNoCleanup(bind_ok) ==
  /\ MainIdle
  /\ calls' = Append(calls, "start")
  /\ IF running
       THEN UNCHANGED server
     ELSE /\ running' = TRUE
          /\ socket' = IF bind_ok THEN "bound" ELSE "unbound"
          /\ server_thread' = IF bind_ok THEN "thread" ELSE "None"
          /\ listeners' = IF bind_ok THEN listeners + 1 ELSE listeners
  /\ UNCHANGED <<callers, listening, scene, connection, client, bridge,
                 toggles, panel>>

\* the body of start(); bind_ok tells whether socket(), bind() and listen()
\* succeed
server_start(bind_ok) ==
  /\ MainIdle
  /\ calls' = Append(calls, "start")
  /\ IF running
       THEN UNCHANGED server
     ELSE IF bind_ok
       THEN /\ running' = TRUE
            /\ socket' = "bound"
            /\ server_thread' = "thread"
            /\ listeners' = listeners + 1
     ELSE \* except: self.stop()
          /\ running' = FALSE
          /\ socket' = "None"
          /\ server_thread' = "None"
          /\ UNCHANGED listeners
  /\ UNCHANGED <<callers, listening, scene, connection, client, bridge,
                 toggles>>

\* start() called on the server object
start(bind_ok) ==
  /\ server_start(bind_ok)
  /\ UNCHANGED panel

(***************************************************************************)
(* _server_loop.  An accept that times out or fails changes nothing.       *)
(***************************************************************************)
\* the listener threads at while self.running
AtLoop == listeners - accepting - sleeping

\* accept() returns connection c and its _handle_client thread is started
Accept(c) ==
  /\ AtLoop > 0
  /\ running
  /\ socket = "bound"
  /\ pc[c] = "none"
  /\ \A d \in Conns : d < c => pc[d] # "none"
  /\ pc' = [pc EXCEPT ![c] = "loop"]
  /\ peer' = [peer EXCEPT ![c] = "open"]
  /\ UNCHANGED <<server, scene, leftBy, buffer, command, decoded, reads, wire,
                 sentMsgs, bridge, calls, toggles, panel>>

\* while self.running ends the loop
ListenerExit ==
  /\ AtLoop > 0
  /\ ~running
  /\ listeners' = listeners - 1
  /\ UNCHANGED <<running, socket, server_thread, callers, listening, scene,
                 connection, client, bridge, calls, toggles, panel>>
(***************************************************************************)
(* Clients.                                                                *)
(***************************************************************************)
RECURSIVE SentUpTo(_, _)
SentUpTo(sent, c) == IF c = 0 THEN 0 ELSE Len(sent[c]) + SentUpTo(sent, c - 1)

TotalSent == SentUpTo(sentMsgs, MaxConns)

\* the client of connection c sends the bytes of message m
ClientSend(c, m) ==
  /\ peer[c] = "open"
  /\ TotalSent < MaxMessages
  /\ wire' = [wire EXCEPT ![c] = @ \o m]
  /\ sentMsgs' = [sentMsgs EXCEPT ![c] = Append(@, m)]
  /\ UNCHANGED <<server, scene, connection, peer, bridge, calls, toggles,
                 panel>>

\* the client of connection c closes its socket
ClientClose(c) ==
  /\ peer[c] = "open"
  /\ Cardinality({d \in Conns : peer[d] = "closed"}) < MaxCloses
  /\ peer' = [peer EXCEPT ![c] = "closed"]
  /\ UNCHANGED <<server, scene, connection, wire, sentMsgs, bridge, calls,
                 toggles, panel>>

(***************************************************************************)
(* _handle_client.                                                         *)
(***************************************************************************)
\* a variant of Register: the connection's thread calls execute_command itself
RunOnHandlerThread(c, id) ==
  /\ executing' = executing \cup
       {[thread |-> "handler", conn |-> c, id |-> id, cmd |-> command'[c],
         client |-> c]}
  /\ UNCHANGED timers

\* bpy.app.timers.register(execute_wrapper, first_interval=0.0): the closure
\* created by decode number id of connection c is queued for the main thread
Register(c, id) ==
  /\ timers' = Append(timers, [conn |-> c, id |-> id])
  /\ UNCHANGED executing

\* while self.running: the test, then recv or the finally clause
LoopCheck(c) ==
  /\ pc[c] = "loop"
  /\ pc' = [pc EXCEPT ![c] = IF running THEN "recv" ELSE "closed"]
  /\ leftBy' = [leftBy EXCEPT ![c] = IF running THEN @ ELSE "stopped"]
  /\ UNCHANGED <<server, scene, buffer, command, decoded, reads, client,
                 bridge, calls, toggles, panel>>

\* a variant of Decoded: after registering the wrapper the connection's
\* thread waits for it to finish before it reads again
DecodedThenWaits(c, doc, id) ==
  /\ buffer' = [buffer EXCEPT ![c] = <<>>]
  /\ command' = [command EXCEPT ![c] = [id |-> id, v |-> doc]]
  /\ decoded' = [decoded EXCEPT ![c] = Append(@, doc)]
  /\ Register(c, id)
  /\ pc' = [pc EXCEPT ![c] = "waits"]
  /\ UNCHANGED leftBy

\* json.loads returned doc: buffer = b'', command is rebound, the wrapper is
\* registered, and the loop goes on
Decoded(c, doc, id) ==
  /\ buffer' = [buffer EXCEPT ![c] = <<>>]
  /\ command' = [command EXCEPT ![c] = [id |-> id, v |-> doc]]
  /\ decoded' = [decoded EXCEPT ![c] = Append(@, doc)]
  /\ Register(c, id)
  /\ pc' = [pc EXCEPT ![c] = "loop"]
  /\ UNCHANGED leftBy

\* a variant of NotDecoded: the buffer is cleared after every read
NotDecodedCleared(c, buf) ==
  /\ buffer' = [buffer EXCEPT ![c] = <<>>]
  /\ pc' = [pc EXCEPT ![c] = "loop"]
  /\ UNCHANGED <<leftBy, command, decoded, timers, executing>>

\* except json.JSONDecodeError: pass
NotDecoded(c, buf) ==
  /\ buffer' = [buffer EXCEPT ![c] = buf]
  /\ pc' = [pc EXCEPT ![c] = "loop"]
  /\ UNCHANGED <<leftBy, command, decoded, timers, executing>>

\* except Exception: break, and the finally clause
Broke(c, buf) ==
  /\ buffer' = [buffer EXCEPT ![c] = buf]
  /\ pc' = [pc EXCEPT ![c] = "closed"]
  /\ leftBy' = [leftBy EXCEPT ![c] = "error"]
  /\ UNCHANGED <<command, decoded, timers, executing>>

\* the try around json.loads(buffer.decode('utf-8')), dec being its result
Process(c, buf, dec) ==
  IF dec.ok THEN Decoded(c, dec.v, Len(decoded[c]) + 1)
  ELSE IF dec.exc = "json" THEN NotDecoded(c, buf)
  ELSE Broke(c, buf)

\* buffer += data
Received(c, buf) == Process(c, buf, DecodeBuffer(buf))

\* client.recv returns the first n bytes in flight, and the body of the loop
Recv(c, n) ==
  /\ pc[c] = "recv"
  /\ n \in 1..Len(wire[c])
  /\ n <= RecvSize
  /\ wire' = [wire EXCEPT ![c] = SubSeq(@, n + 1, Len(@))]
  /\ reads' = [reads EXCEPT ![c] = @ + 1]
  /\ Received(c, buffer[c] \o SubSeq(wire[c], 1, n))
  /\ UNCHANGED <<server, scene, peer, sentMsgs, outbox, log, calls, toggles,
                 panel>>

\* client.recv returns b'': the peer has closed and nothing is left to read
RecvEOF(c) ==
  /\ pc[c] = "recv"
  /\ wire[c] = <<>>
  /\ peer[c] = "closed"
  /\ pc' = [pc EXCEPT ![c] = "closed"]
  /\ leftBy' = [leftBy EXCEPT ![c] = "disconnected"]
  /\ UNCHANGED <<server, scene, buffer, command, decoded, reads, client,
                 bridge, calls, toggles, panel>>

(***************************************************************************)
(* The host's main thread: the timer system calls each registered          *)
(* execute_wrapper once (it returns None, which unregisters it), one at a  *)
(* time and in no promised order, and runs the panel's checkboxes.         *)
(***************************************************************************)
\* the command execute_wrapper w passes to execute_command: the value of the
\* enclosing function's variable at the time of the call
CommandSeenBy(w) == command[w.conn]

\* a variant of ClientSeenBy: every wrapper writes to the first connection
FirstClient(w) == 1

\* the client execute_wrapper w writes to: the enclosing function's parameter
ClientSeenBy(w) == w.conn

\* a variant of HostBegin: a wrapper is called while another one is running
HostBeginOverlapping(i) ==
  /\ i \in 1..Len(timers)
  /\ executing' = executing \cup
       {[thread |-> "main", conn |-> timers[i].conn, id |-> timers[i].id,
         cmd |-> CommandSeenBy(timers[i]), client |-> ClientSeenBy(timers[i])]}
  /\ timers' = SubSeq(timers, 1, i - 1) \o SubSeq(timers, i + 1, Len(timers))
  /\ UNCHANGED <<server, scene, connection, client, outbox, log, calls,
                 toggles, panel>>

\* the timer system calls the i-th registered wrapper, which enters
\* execute_command
HostBegin(i) ==
  /\ MainIdle
  /\ i \in 1..Len(timers)
  /\ executing' = executing \cup
       {[thread |-> "main", conn |-> timers[i].conn, id |-> timers[i].id,
         cmd |-> CommandSeenBy(timers[i]), client |-> ClientSeenBy(timers[i])]}
  /\ timers' = SubSeq(timers, 1, i - 1) \o SubSeq(timers, i + 1, Len(timers))
  /\ UNCHANGED <<server, scene, connection, client, outbox, log, calls,
                 toggles, panel>>

\* what client.sendall can do on connection c: it fails on a socket this side
\* has closed, and may fail or not once the peer has closed
SendOutcomes(c) ==
  IF pc[c] = "closed" THEN {FALSE}
  ELSE IF peer[c] = "closed" THEN {TRUE, FALSE}
  ELSE {TRUE}

\* a variant of execute_wrapper: the except clause sends error_response
\* outside any try, so a write that fails there leaves the wrapper
execute_wrapper_unguarded(r, sent) ==
  [response |-> WrapperResponse(r.response), written |-> sent,
   escaped |-> ~Serializable(r.response) /\ ~sent]

\* execute_wrapper once execute_command has returned r: json.dumps(response)
\* and sendall inside try ... except: print, and in except Exception the
\* sendall of error_response inside try ... except: pass; then return None.
\* sent tells whether sendall wrote the bytes
execute_wrapper(r, sent) ==
  [response |-> WrapperResponse(r.response), written |-> sent,
   escaped |-> FALSE]

\* client.sendall(...) by wrapper e, whose execute_command returned r and
\* which ended as w
Sendall(e, r, w) ==
  /\ outbox' = [outbox EXCEPT ![e.client] =
                  IF w.written
                    THEN Append(@, [response |-> w.response, conn |-> e.conn,
                                    wrapper |-> e.id, cmd |-> e.cmd.id])
                  ELSE @]
  /\ log' = log \cup
       {[conn |-> e.conn, wrapper |-> e.id, cmd |-> e.cmd.id, doc |-> e.cmd.v,
         thread |-> e.thread, dispatched |-> r.response,
         response |-> w.response, body |-> r.body, raised |-> r.raised,
         use_polyhaven |-> use_polyhaven, use_hyper3d |-> use_hyper3d,
         hyper3d_mode |-> hyper3d_mode, written |-> w.written,
         escaped |-> w.escaped, seen |-> [c \in Conns |-> Len(decoded[c])]]}

\* the handler's changes of the scene, and the Response
Respond(e, r, sent) ==
  /\ objects' = r.objects
  /\ Sendall(e, r, execute_wrapper(r, sent))

\* execute_command returns, and the rest of execute_wrapper
HostFinish(outcome, sent) ==
  \E e \in executing :
    /\ e.thread = "main"
    /\ sent \in SendOutcomes(e.client)
    /\ Respond(e, execute_command(e.cmd.v, use_polyhaven, use_hyper3d, outcome,
                                  Bpy(objects, hyper3d_mode)), sent)
    /\ executing' = executing \ {e}
    /\ UNCHANGED <<server, use_polyhaven, use_hyper3d, hyper3d_mode,
                   connection, client, timers, calls, toggles, panel>>

\* the 'Use assets from Poly Haven' checkbox
TogglePolyhaven ==
  /\ MainIdle
  /\ toggles < MaxToggles
  /\ toggles' = toggles + 1
  /\ use_polyhaven' = ~use_polyhaven
  /\ UNCHANGED <<server, use_hyper3d, hyper3d_mode, objects, connection,
                 client, bridge, calls, panel>>

\* the 'Use Hyper3D Rodin 3D model generation' checkbox
ToggleHyper3d ==
  /\ MainIdle
  /\ toggles < MaxToggles
  /\ toggles' = toggles + 1
  /\ use_hyper3d' = ~use_hyper3d
  /\ UNCHANGED <<server, use_polyhaven, hyper3d_mode, objects, connection,
                 client, bridge, calls, panel>>

\* the 'Rodin Mode' selector of the panel
ToggleMode ==
  /\ MainIdle
  /\ toggles < MaxToggles
  /\ toggles' = toggles + 1
  /\ hyper3d_mode' = IF hyper3d_mode = "MAIN_SITE" THEN "FAL_AI"
                     ELSE "MAIN_SITE"
  /\ UNCHANGED <<server, use_polyhaven, use_hyper3d, objects, connection,
                 client, bridge, calls, panel>>

(***************************************************************************)
(* Specifications.  Spec is the server with several connections, whose     *)
(* clients send whole messages that arrive in one read each.               *)
(***************************************************************************)
MenuMain == {MsgExitEditMode, MsgGetFrameRange}

Next ==
  \/ \E bind_ok \in BOOLEAN : Len(calls) < MaxCalls /\ start(bind_ok)
  \/ Len(calls) < MaxCalls /\ stop
  \/ \E c \in Conns : Accept(c)
  \/ ListenerExit
  \/ \E c \in Conns : LoopCheck(c)
  \/ \E c \in Conns, m \in MenuMain : TotalSent < MaxSends /\ ClientSend(c, m)
  \/ \E c \in Conns : ClientClose(c)
  \/ \E c \in Conns : Recv(c, Len(wire[c]))
  \/ \E c \in Conns : RecvEOF(c)
  \/ \E i \in 1..MaxMessages : HostBegin(i)
  \/ \E outcome \in {"return", "raise"}, sent \in BOOLEAN :
       HostFinish(outcome, sent)

Spec == Init /\ [][Next]_vars

(***************************************************************************)
(* SpecDispatch is one connection whose client sends every kind of         *)
(* document, while the checkboxes change and handlers return, return what  *)
(* json.dumps rejects, or raise.                                           *)
(***************************************************************************)
MenuDispatch ==
  {MsgExitEditMode, MsgSearchPolyhaven, MsgCreateRodinJob, MsgUnknownCmd,
   MsgNoType, MsgListType, MsgListParams, MsgArray}

NextDispatch ==
  \/ Len(calls) < MaxCalls /\ start(TRUE)
  \/ Accept(1)
  \/ LoopCheck(1)
  \/ \E m \in MenuDispatch : TotalSent < MaxSends /\ ClientSend(1, m)
  \/ Recv(1, Len(wire[1]))
  \/ \E i \in 1..MaxMessages : HostBegin(i)
  \/ \E outcome \in Outcomes : HostFinish(outcome, TRUE)
  \/ TogglePolyhaven
  \/ ToggleHyper3d

SpecDispatch == Init /\ [][NextDispatch]_vars

(***************************************************************************)
(* SpecBytes is one connection whose reads return any number of the bytes  *)
(* in flight.                                                              *)
(***************************************************************************)
MenuBytes == {MsgAddTextAccent, MsgBrace, MsgBadByte}

NextBytes ==
  \/ Len(calls) < MaxCalls /\ start(TRUE)
  \/ Accept(1)
  \/ LoopCheck(1)
  \/ \E m \in MenuBytes : TotalSent < MaxByteSends /\ ClientSend(1, m)
  \/ \E n \in 1..Len(wire[1]) : Recv(1, n)
  \/ \E i \in 1..MaxMessages : HostBegin(i)
  \/ HostFinish("return", TRUE)

SpecBytes == Init /\ [][NextBytes]_vars


(***************************************************************************)
(* SpecRaise is the running server with its connections, whose handlers    *)
(* return or raise, and whose clients send one message more.               *)
(***************************************************************************)
MenuRaise == {MsgExitEditMode}

NextRaise ==
  \/ Len(calls) < MaxCalls /\ start(TRUE)
  \/ \E c \in Conns : Accept(c)
  \/ \E c \in Conns : LoopCheck(c)
  \/ \E c \in Conns, m \in MenuRaise : ClientSend(c, m)
  \/ \E c \in Conns : Recv(c, Len(wire[c]))
  \/ \E i \in 1..MaxMessages : HostBegin(i)
  \/ \E outcome \in {"return", "raise"} : HostFinish(outcome, TRUE)

SpecRaise == Init /\ [][NextRaise]_vars


(***************************************************************************)
(* start() and stop() statement by statement, for threads that call them   *)
(* at the same time.  Neither takes a lock.  Every statement reads         *)
(* self.socket and self.server_thread anew, so a socket object another     *)
(* caller has replaced is unreachable and closed.  SpecLifecycle is the    *)
(* server object alone with these callers and its listener threads.        *)
(***************************************************************************)
Others == <<listening, scene, connection, client, bridge, toggles, panel>>

\* a call of start(): if self.running: return
StartCheck(t) ==
  /\ callers[t] = "idle"
  /\ Len(calls) < MaxCalls
  /\ calls' = Append(calls, "start")
  /\ callers' = [callers EXCEPT ![t] = IF running THEN "idle" ELSE "running"]
  /\ UNCHANGED <<running, socket, server_thread, listeners, Others>>

\* self.running = True
StartRunning(t) ==
  /\ callers[t] = "running"
  /\ running' = TRUE
  /\ callers' = [callers EXCEPT ![t] = "socket"]
  /\ UNCHANGED <<socket, server_thread, listeners, calls, Others>>

\* self.socket = socket.socket(...)
StartSocket(t) ==
  /\ callers[t] = "socket"
  /\ socket' = "unbound"
  /\ callers' = [callers EXCEPT ![t] = "bind"]
  /\ UNCHANGED <<running, server_thread, listeners, calls, Others>>

\* self.socket.setsockopt, bind and listen: they raise when self.socket is
\* None or bound already, and when the port is taken (bind_ok false); the
\* except clause calls self.stop(), whose first statement is taken here
StartBind(t, bind_ok) ==
  /\ callers[t] = "bind"
  /\ IF socket = "unbound" /\ bind_ok
       THEN /\ socket' = "bound"
            /\ callers' = [callers EXCEPT ![t] = "thread"]
            /\ UNCHANGED running
     ELSE /\ running' = FALSE
          /\ callers' = [callers EXCEPT ![t] = "stop_socket"]
          /\ UNCHANGED socket
  /\ UNCHANGED <<server_thread, listeners, calls, Others>>

\* self.server_thread = threading.Thread(...), daemon, start()
StartThread(t) ==
  /\ callers[t] = "thread"
  /\ server_thread' = "thread"
  /\ listeners' = listeners + 1
  /\ callers' = [callers EXCEPT ![t] = "idle"]
  /\ UNCHANGED <<running, socket, calls, Others>>

\* a call of stop(): self.running = False
StopRunning(t) ==
  /\ callers[t] = "idle"
  /\ Len(calls) < MaxCalls
  /\ calls' = Append(calls, "stop")
  /\ running' = FALSE
  /\ callers' = [callers EXCEPT ![t] = "stop_socket"]
  /\ UNCHANGED <<socket, server_thread, listeners, Others>>

\* if self.socket: close it; self.socket = None
StopSocket(t) ==
  /\ callers[t] = "stop_socket"
  /\ socket' = "None"
  /\ callers' = [callers EXCEPT ![t] = "stop_thread"]
  /\ UNCHANGED <<running, server_thread, listeners, calls, Others>>

\* if self.server_thread: join(timeout=1.0); self.server_thread = None
StopThread(t) ==
  /\ callers[t] = "stop_thread"
  /\ server_thread' = "None"
  /\ callers' = [callers EXCEPT ![t] = "idle"]
  /\ UNCHANGED <<running, socket, listeners, calls, Others>>

NextLifecycle ==
  \/ \E t \in Callers : StartCheck(t)
  \/ \E t \in Callers : StartRunning(t)
  \/ \E t \in Callers : StartSocket(t)
  \/ \E t \in Callers, bind_ok \in BOOLEAN : StartBind(t, bind_ok)
  \/ \E t \in Callers : StartThread(t)
  \/ \E t \in Callers : StopRunning(t)
  \/ \E t \in Callers : StopSocket(t)
  \/ \E t \in Callers : StopThread(t)
  \/ ListenerExit

SpecLifecycle == Init /\ [][NextLifecycle]_vars

(***************************************************************************)
(* SpecParams is one connection whose client sends commands with           *)
(* parameters, to the handlers whose bodies are modelled, while the Rodin  *)
(* checkbox and the Rodin mode change and the engine lets a body return or *)
(* fail.                                                                   *)
(***************************************************************************)
\* a keyword that add_modifier has no parameter for, nor the modifier an
\* attribute
MsgAddModifierExtra ==
  Utf8Encode(
    Str(<<"{","\"","t","y","p","e","\"",":"," ","\"","a","d","d","_","m",
          "o","d","i","f","i","e","r","\"",","," ","\"","p","a","r","a","m",
          "s","\"",":"," ","{","\"","o","b","j","e","c","t","_","n","a","m",
          "e","\"",":"," ","\"","C","u","b","e","\"",","," ","\"","m","o",
          "d","i","f","i","e","r","_","t","y","p","e","\"",":"," ","\"","S",
          "U","B","S","U","R","F","\"",","," ","\"","b","o","g","u","s",
          "\"",":"," ","1","}","}">>))

\* a location that is no vector
MsgAddPrimitiveBadLocation ==
  Utf8Encode(
    Str(<<"{","\"","t","y","p","e","\"",":"," ","\"","a","d","d","_","p",
          "r","i","m","i","t","i","v","e","\"",","," ","\"","p","a","r","a",
          "m","s","\"",":"," ","{","\"","l","o","c","a","t","i","o","n",
          "\"",":"," ","\"","x","\"","}","}">>))

\* a valid location and a rotation that is no Euler
MsgTransformBadRotation ==
  Utf8Encode(
    Str(<<"{","\"","t","y","p","e","\"",":"," ","\"","t","r","a","n","s",
          "f","o","r","m","_","o","b","j","e","c","t","\"",","," ","\"","p",
          "a","r","a","m","s","\"",":"," ","{","\"","n","a","m","e","\"",
          ":"," ","\"","C","u","b","e","\"",","," ","\"","l","o","c","a",
          "t","i","o","n","\"",":"," ","[","1",","," ","2",","," ","3","]",
          ","," ","\"","r","o","t","a","t","i","o","n","\"",":"," ","\"",
          "x","\"","}","}">>))

MsgGetSceneInfo ==
  Utf8Encode(
    Str(<<"{","\"","t","y","p","e","\"",":"," ","\"","g","e","t","_","s",
          "c","e","n","e","_","i","n","f","o","\"",","," ","\"","p","a","r",
          "a","m","s","\"",":"," ","{","}","}">>))

\* the argument of poll_rodin_job_status_main_site
MsgPollRodinJob ==
  Utf8Encode(
    Str(<<"{","\"","t","y","p","e","\"",":"," ","\"","p","o","l","l","_",
          "r","o","d","i","n","_","j","o","b","_","s","t","a","t","u","s",
          "\"",","," ","\"","p","a","r","a","m","s","\"",":"," ","{","\"",
          "s","u","b","s","c","r","i","p","t","i","o","n","_","k","e","y",
          "\"",":"," ","\"","k","\"","}","}">>))

MenuParams ==
  {MsgAddModifierExtra, MsgAddPrimitiveBadLocation, MsgTransformBadRotation,
   MsgGetSceneInfo, MsgPollRodinJob}

NextParams ==
  \/ Len(calls) < MaxCalls /\ start(TRUE)
  \/ Accept(1)
  \/ LoopCheck(1)
  \/ \E m \in MenuParams : TotalSent < MaxSends /\ ClientSend(1, m)
  \/ Recv(1, Len(wire[1]))
  \/ \E i \in 1..MaxMessages : HostBegin(i)
  \/ \E outcome \in {"return", "raise"} : HostFinish(outcome, TRUE)
  \/ ToggleHyper3d
  \/ ToggleMode

SpecParams == Init /\ [][NextParams]_vars

(***************************************************************************)
(* SpecWrapper is one connection whose client sends one document of any    *)
(* kind and may close, while the handler returns, returns what json.dumps  *)
(* rejects, or raises, and the write of the Response succeeds or fails.    *)
(***************************************************************************)
MenuWrapper ==
  {MsgExitEditMode, MsgUnknownCmd, MsgNoType, MsgListType, MsgListParams,
   MsgArray}

NextWrapper ==
  \/ Len(calls) < MaxCalls /\ start(TRUE)
  \/ Accept(1)
  \/ LoopCheck(1)
  \/ \E m \in MenuWrapper : TotalSent < MaxByteSends /\ ClientSend(1, m)
  \/ ClientClose(1)
  \/ Recv(1, Len(wire[1]))
  \/ RecvEOF(1)
  \/ \E i \in 1..MaxMessages : HostBegin(i)
  \/ \E outcome \in Outcomes, sent \in BOOLEAN : HostFinish(outcome, sent)

SpecWrapper == Init /\ [][NextWrapper]_vars

(***************************************************************************)
(* _server_loop step by step.  A listener thread is at the loop test, in   *)
(* self.socket.accept(), whose timeout is one second, or in the sleep that *)
(* follows an accept that raised.  SpecListener is the server object with  *)
(* its listener threads under start() and stop() calls on the main thread. *)
(***************************************************************************)
\* while self.running holds and the thread calls self.socket.accept()
ListenerTry ==
  /\ AtLoop > 0
  /\ running
  /\ accepting' = accepting + 1
  /\ UNCHANGED <<running, socket, server_thread, listeners, callers, sleeping,
                 scene, connection, client, bridge, calls, toggles, panel>>

\* accept() returns connection c: its _handle_client thread is started and
\* the listener is back at the loop test
AcceptConn(c) ==
  /\ accepting > 0
  /\ socket = "bound"
  /\ pc[c] = "none"
  /\ \A d \in Conns : d < c => pc[d] # "none"
  /\ accepting' = accepting - 1
  /\ pc' = [pc EXCEPT ![c] = "loop"]
  /\ peer' = [peer EXCEPT ![c] = "open"]
  /\ UNCHANGED <<running, socket, server_thread, listeners, callers, sleeping,
                 scene, leftBy, buffer, command, decoded, reads, wire,
                 sentMsgs, bridge, calls, toggles, panel>>

\* except socket.timeout: continue
AcceptTimeout ==
  /\ accepting > 0
  /\ accepting' = accepting - 1
  /\ UNCHANGED <<running, socket, server_thread, listeners, callers, sleeping,
                 scene, connection, client, bridge, calls, toggles, panel>>

\* a variant of AcceptError: the exception ends the listener thread
AcceptErrorEnds ==
  /\ accepting > 0
  /\ accepting' = accepting - 1
  /\ listeners' = listeners - 1
  /\ UNCHANGED <<running, socket, server_thread, callers, sleeping, scene,
                 connection, client, bridge, calls, toggles, panel>>

\* except Exception: print and time.sleep(0.5); accept raises on a closed
\* socket, on self.socket being None, and when the system refuses
AcceptError ==
  /\ accepting > 0
  /\ accepting' = accepting - 1
  /\ sleeping' = sleeping + 1
  /\ UNCHANGED <<running, socket, server_thread, listeners, callers, scene,
                 connection, client, bridge, calls, toggles, panel>>

\* time.sleep(0.5) returns and the thread is at the loop test
ListenerWake ==
  /\ sleeping > 0
  /\ sleeping' = sleeping - 1
  /\ UNCHANGED <<running, socket, server_thread, listeners, callers, accepting,
                 scene, connection, client, bridge, calls, toggles, panel>>

NextListener ==
  \/ \E bind_ok \in BOOLEAN : Len(calls) < MaxListenerCalls /\ start(bind_ok)
  \/ Len(calls) < MaxListenerCalls /\ stop
  \/ ListenerTry
  \/ \E c \in Conns : AcceptConn(c)
  \/ AcceptTimeout
  \/ AcceptError
  \/ ListenerWake
  \/ ListenerExit

\* accept waits for a second at most, the sleep for half a second, and a
\* thread at the loop test takes it
SpecListener ==
  /\ Init
  /\ [][NextListener]_vars
  /\ WF_vars(AcceptTimeout)
  /\ WF_vars(ListenerWake)
  /\ WF_vars(ListenerExit)

(***************************************************************************)
(* SpecSession is one connection whose client sends one command after      *)
(* another, may close, and whose server may be stopped.  A blocked recv    *)
(* returns when bytes are there, the loop test is taken, and the host      *)
(* calls every registered timer and lets it finish.                        *)
(***************************************************************************)
MenuSession == {MsgExitEditMode, MsgUnknownCmd}

NextSession ==
  \/ Len(calls) < MaxCalls /\ start(TRUE)
  \/ Len(calls) < MaxCalls /\ stop
  \/ Accept(1)
  \/ ListenerExit
  \/ LoopCheck(1)
  \/ \E m \in MenuSession : TotalSent < MaxSends /\ ClientSend(1, m)
  \/ ClientClose(1)
  \/ Recv(1, Len(wire[1]))
  \/ RecvEOF(1)
  \/ \E i \in 1..MaxMessages : HostBegin(i)
  \/ \E outcome \in {"return", "raise"}, sent \in BOOLEAN :
       HostFinish(outcome, sent)

\* a read of connection c is due: its thread is in recv and bytes are there
RecvDue(c) == pc[c] = "recv" /\ wire[c] # <<>>

\* the main thread is inside an execute_wrapper
HostDue == \E e \in executing : e.thread = "main"

\* weak fairness of the read and of the end of execute_wrapper, written with
\* the conditions under which they are enabled
RecvFair ==
  \/ []<>(~RecvDue(1))
  \/ []<><<reads'[1] # reads[1]>>_vars

HostFair ==
  \/ []<>(~HostDue)
  \/ []<><<log' # log>>_vars

SpecSession ==
  /\ Init
  /\ [][NextSession]_vars
  /\ WF_vars(LoopCheck(1))
  /\ WF_vars(\E i \in 1..MaxMessages : HostBegin(i))
  /\ RecvFair
  /\ HostFair

(***************************************************************************)
(* The panel's operators.  BLENDERMCP_OT_StopServer deletes the server     *)
(* object and BLENDERMCP_OT_StartServer creates one when there is none, so *)
(* the fields are those of the object bpy.types.blendermcp_server names,   *)
(* or of the next one while there is none.  The threads of a deleted       *)
(* object end by its running field, which stays False, and are no longer   *)
(* counted.  SpecPanel is the panel: its operators, checkboxes and API key *)
(* field, with the listener of the object and the status commands.         *)
(***************************************************************************)
\* calls of start() and stop() through the operators in one run
MaxPanelCalls == 4

\* BLENDERMCP_OT_StartServer.execute
StartServer(bind_ok) ==
  /\ server_start(bind_ok)
  /\ blendermcp_server' = TRUE
  /\ blendermcp_server_running' = TRUE
  /\ UNCHANGED <<blendermcp_hyper3d_api_key, reports>>

\* BLENDERMCP_OT_StopServer.execute
StopServer ==
  /\ IF blendermcp_server
       THEN /\ server_stop
            /\ listeners' = 0
            /\ accepting' = 0
            /\ sleeping' = 0
            /\ blendermcp_server' = FALSE
     ELSE /\ MainIdle
          /\ UNCHANGED <<server, scene, connection, client, bridge, calls,
                         toggles, blendermcp_server>>
  /\ blendermcp_server_running' = FALSE
  /\ UNCHANGED <<blendermcp_hyper3d_api_key, reports>>

\* the API key field of the panel: a key is typed in or removed
SetApiKey ==
  /\ MainIdle
  /\ toggles < MaxToggles
  /\ toggles' = toggles + 1
  /\ blendermcp_hyper3d_api_key' =
       IF blendermcp_hyper3d_api_key = "" THEN "private" ELSE ""
  /\ UNCHANGED <<server, scene, connection, client, bridge, calls,
                 blendermcp_server, blendermcp_server_running, reports>>

\* BLENDERMCP_OT_SetFreeTrialHyper3DAPIKey.execute
SetFreeTrialHyper3DAPIKey ==
  /\ MainIdle
  /\ toggles < MaxToggles
  /\ toggles' = toggles + 1
  /\ blendermcp_hyper3d_api_key' = "free_trial"
  /\ hyper3d_mode' = "MAIN_SITE"
  /\ UNCHANGED <<server, use_polyhaven, use_hyper3d, objects, connection,
                 client, bridge, calls, blendermcp_server,
                 blendermcp_server_running, reports>>

\* what a status command tells: enabled, and which of its messages
Status(enabled, text, mode, key_type) ==
  [enabled |-> enabled, text |-> text, mode |-> mode, key_type |-> key_type]

get_polyhaven_status(enabled) ==
  IF enabled THEN Status(TRUE, "enabled and ready to use", "", "")
  ELSE Status(FALSE, "currently disabled", "", "")

get_hyper3d_status(enabled, api_key, mode) ==
  IF enabled
    THEN IF api_key = ""
           THEN Status(FALSE, "enabled, but API key is not given", "", "")
         ELSE Status(TRUE, "enabled and ready to use", mode,
                     IF api_key # "free_trial" THEN "private"
                     ELSE "free_trial")
  ELSE Status(FALSE, "currently disabled", "", "")

\* status commands the host answers in one run
MaxReports == 2

\* the host runs the status command of a capability, whose result is kept
\* with the scene's properties of that moment
StatusCommand(capability) ==
  /\ MainIdle
  /\ Cardinality(reports) < MaxReports
  /\ reports' = reports \cup
       {[capability |-> capability,
         result |-> IF capability = "polyhaven"
                      THEN get_polyhaven_status(use_polyhaven)
                    ELSE get_hyper3d_status(use_hyper3d,
                                            blendermcp_hyper3d_api_key,
                                            hyper3d_mode),
         use_polyhaven |-> use_polyhaven, use_hyper3d |-> use_hyper3d,
         api_key |-> blendermcp_hyper3d_api_key, mode |-> hyper3d_mode]}
  /\ UNCHANGED <<server, scene, connection, client, bridge, calls, toggles,
                 blendermcp_server, blendermcp_server_running,
                 blendermcp_hyper3d_api_key>>

NextPanel ==
  \/ \E bind_ok \in BOOLEAN : Len(calls) < MaxPanelCalls /\ StartServer(bind_ok)
  \/ Len(calls) < MaxPanelCalls /\ StopServer
  \/ ListenerTry
  \/ AcceptTimeout
  \/ AcceptError
  \/ ListenerWake
  \/ TogglePolyhaven
  \/ ToggleHyper3d
  \/ ToggleMode
  \/ SetApiKey
  \/ SetFreeTrialHyper3DAPIKey
  \/ \E capability \in {"polyhaven", "hyper3d"} : StatusCommand(capability)

SpecPanel == Init /\ [][NextPanel]_vars
(***************************************************************************)
(* Properties.  A command is named by its connection c and by id, its      *)
(* place among the commands that connection decoded.                       *)
(***************************************************************************)
\* the finished runs of execute_wrapper that executed command id of c
RunsOf(c, id) == {l \in log : l.conn = c /\ l.cmd = id}

\* the calls of execute_command in progress that execute command id of c
RunningOf(c, id) == {e \in executing : e.conn = c /\ e.cmd.id = id}

\* no wrapper of connection c is registered or running
Quiet(c) ==
  /\ \A i \in 1..Len(timers) : timers[i].conn # c
  /\ \A e \in executing : e.conn # c

\* the connection of c is gone: closed by this side or by the peer
Gone(c) == pc[c] = "closed" \/ peer[c] = "closed"

\* a command with a base handler that its params bind to: one whose body runs
Runnable(doc) ==
  execute_command(doc, FALSE, FALSE, "return",
                  Bpy(startup_objects, "MAIN_SITE")).body # <<>>

\* the shape of a Response
Shaped(r) ==
  \/ r.status = "success" /\ DOMAIN r = {"status", "result"}
  \/ r.status = "error" /\ DOMAIN r = {"status", "message"}

\* C1: every command a connection decoded and registered has its handler
\* body executed exactly once, on the main thread: never twice, and once
\* when no wrapper of the connection is left to run
C1_BodyExactlyOnce ==
  /\ \A e \in executing : e.thread = "main"
  /\ \A c \in Conns : \A id \in 1..Len(decoded[c]) :
       Runnable(decoded[c][id]) =>
         /\ Cardinality({l \in RunsOf(c, id) : l.body # <<>>})
              + Cardinality(RunningOf(c, id)) <= 1
         /\ Quiet(c) =>
              Cardinality({l \in RunsOf(c, id) : l.body # <<>>}) = 1

\* C2: every decoded command has exactly one outcome: never two Responses,
\* one when no wrapper of the connection is left to run, and a Response is
\* dropped only when the connection is gone
C2_OneOutcomePerCommand ==
  \A c \in Conns : \A id \in 1..Len(decoded[c]) :
    /\ Cardinality(RunsOf(c, id)) <= 1
    /\ Quiet(c) => Cardinality(RunsOf(c, id)) = 1
    /\ \A l \in RunsOf(c, id) : ~l.written => Gone(c)

\* C3: at most one call of execute_command is in progress at any moment
C3_OneBodyAtATime == Cardinality(executing) <= 1

\* a handler body is in progress while another connection's command waits
C3_Witness ==
  \E e \in executing :
    /\ e.thread = "main"
    /\ \E i \in 1..Len(timers) : timers[i].conn # e.conn

\* C4: while every connection has submitted at most one command, each
\* connection has as many Responses produced as commands decoded once its
\* wrappers have run, and every Response written is well formed and is on
\* the connection whose command it answers
C4_OneResponseEach ==
  (\A c \in Conns : Len(decoded[c]) <= 1) =>
    \A c \in Conns :
      /\ \A j \in 1..Len(outbox[c]) :
           outbox[c][j].conn = c /\ Shaped(outbox[c][j].response)
      /\ Len(outbox[c]) = Cardinality({l \in log : l.conn = c /\ l.written})
      /\ Cardinality({l \in log : l.conn = c}) <= Len(decoded[c])
      /\ Quiet(c) => Cardinality({l \in log : l.conn = c}) = Len(decoded[c])

\* every connection submitted one command and holds the one Response to it
C4_Witness ==
  \A c \in Conns :
    /\ Len(decoded[c]) = 1
    /\ Len(outbox[c]) = 1
    /\ outbox[c][1].conn = c

\* C5: every Response execute_command returned has status success or error;
\* a success carries result and no message, an error message and no result
C5_ResponseShape == \A l \in log : Shaped(l.dispatched)

\* execute_command has returned a success and an error
C5_Witness ==
  /\ \E l \in log : l.dispatched.status = "success"
  /\ \E l \in log : l.dispatched.status = "error"

\* the type of a command: a str, or null when the key is absent
TypeOf(doc) == DictGet(doc, KeyType, JNull)

\* the name an f-string prints for the type of a command
TypeName(t) == IF t.k = "str" THEN t.v ELSE Str(<<"N","o","n","e">>)

\* the error Response for a type that has no handler
UnknownError(t) ==
  [status |-> "error",
   message |-> [text |-> "Unknown command type: ", arg |-> TypeName(t)]]

\* a command whose type is a str or absent
Typed(doc) == doc.k = "obj" /\ TypeOf(doc).k \in {"str", "null"}

\* a command whose type is the str of one of names
TypeIn(doc, names) ==
  doc.k = "obj" /\ TypeOf(doc).k = "str" /\ TypeOf(doc).v \in names

\* C6: a command whose type is not in the handler set enabled at its
\* dispatch (never registered, or behind a flag that is off) gets the error
\* Response "Unknown command type: <type>", and no handler body runs
C6_UnknownCommand ==
  \A l \in log :
    (/\ Typed(l.doc)
     /\ ~TypeIn(l.doc, handlers(l.use_polyhaven, l.use_hyper3d)))
      => l.dispatched = UnknownError(TypeOf(l.doc)) /\ l.body = <<>>

\* dispatch has refused a never registered type, and an optional one whose
\* flag was off
C6_Witness ==
  /\ \E l \in log : TypeIn(l.doc, {unknown_cmd})
  /\ \E l \in log :
       /\ \/ TypeIn(l.doc, polyhaven_handlers) /\ ~l.use_polyhaven
          \/ TypeIn(l.doc, hyper3d_handlers) /\ ~l.use_hyper3d
       /\ l.dispatched.status = "error"

\* the dispatch of l went by flag: to the handler of its type when flag is
\* set, to the unknown-command error when it is not
Follows(l, flag) ==
  IF flag THEN l.dispatched # UnknownError(TypeOf(l.doc)) /\ l.body # <<>>
  ELSE l.dispatched = UnknownError(TypeOf(l.doc)) /\ l.body = <<>>

\* C7: every dispatch of a Poly Haven or Hyper3D command goes by the value
\* its flag has at the moment of that dispatch, whatever toggles came before
C7_FlagAtDispatch ==
  [][\A l \in log' \ log :
       /\ TypeIn(l.doc, polyhaven_handlers) => Follows(l, use_polyhaven)
       /\ TypeIn(l.doc, hyper3d_handlers) => Follows(l, use_hyper3d)]_vars

\* with one start and no restart, the same optional command was dispatched
\* to its handler, then after a toggle to the unknown-command error
C7_Witness ==
  /\ Len(calls) = 1
  /\ \E l1, l2 \in log :
       /\ l1.doc = l2.doc
       /\ TypeIn(l1.doc, polyhaven_handlers \cup hyper3d_handlers)
       /\ l1.wrapper < l2.wrapper
       /\ l1.body # <<>>
       /\ l2.dispatched = UnknownError(TypeOf(l2.doc))

\* C8: once a handler body has raised, the Response is an error carrying
\* the exception's description, and every command decoded afterwards has
\* been executed when no wrapper of its connection is left to run
C8_RaiseThenServe ==
  \A r \in log :
    (r.raised /\ r.body # <<>>) =>
      /\ r.dispatched.status = "error"
      /\ r.dispatched.message.text = "str(e) of the handler's exception"
      /\ \A c \in Conns : \A id \in 1..Len(decoded[c]) :
           (id > r.seen[c] /\ Quiet(c)) => RunsOf(c, id) # {}

\* the bytes of a complete Command
IsCommand(m) == DecodeBuffer(m).ok /\ DecodeBuffer(m).v.k = "obj"

\* C9: the bytes of one complete Command, delivered in two reads split at
\* any offset, leave the connection open after the first read with nothing
\* decoded, and yield the Command of the whole bytes after the second
C9_SplitDelivery ==
  \A c \in Conns :
    (Len(sentMsgs[c]) = 1 /\ IsCommand(sentMsgs[c][1]) /\ reads[c] \in {1, 2})
      => /\ leftBy[c] # "error"
         /\ wire[c] # <<>> /\ reads[c] = 1 => decoded[c] = <<>>
         /\ wire[c] = <<>> => decoded[c] = <<DecodeBuffer(sentMsgs[c][1]).v>>

\* the bytes the client of c sent, in order
RECURSIVE Stream(_)
Stream(msgs) == IF msgs = <<>> THEN <<>> ELSE Head(msgs) \o Stream(Tail(msgs))

\* the bytes connection c has read
Consumed(c) ==
  SubSeq(Stream(sentMsgs[c]), 1, Len(Stream(sentMsgs[c])) - Len(wire[c]))

\* b ends a
EndsWith(a, b) ==
  Len(b) <= Len(a) /\ SubSeq(a, Len(a) - Len(b) + 1, Len(a)) = b

\* C10: a read that leaves the buffer unparseable keeps the bytes read in
\* the buffer, sends no Response and does not close the connection
C10_ProtocolErrorSilent ==
  \A c \in Conns :
    (reads[c] > 0 /\ ~DecodeBuffer(buffer[c]).ok) =>
      /\ leftBy[c] # "error"
      /\ EndsWith(Consumed(c), buffer[c])
      /\ Cardinality({l \in log : l.conn = c}) <= Len(decoded[c])


(***************************************************************************)
(* Lifecycle claims.                                                       *)
(***************************************************************************)
\* the last call of start() or stop() was op
LastCall(op) == calls # <<>> /\ calls[Len(calls)] = op

\* the server object holds a socket and a listener thread exactly when it runs
Consistent ==
  /\ running <=> socket = "bound"
  /\ running <=> server_thread = "thread"

Settled ==
  /\ \A t \in Callers : callers[t] = "idle"
  /\ ~(listeners > 0 /\ ~running)

\* Running with one bound socket and one listener, or Stopped with none
WellFormed ==
  \/ running /\ socket = "bound" /\ server_thread = "thread" /\ listeners = 1
  \/ ~running /\ socket = "None" /\ server_thread = "None" /\ listeners = 0

\* C12: for every interleaving of the steps of concurrent start() and stop()
\* calls on one instance, the state they end in is Running with exactly one
\* bound socket and one listener thread, or Stopped with none.
C12_ConcurrentSafe == Settled => WellFormed

\* C13: a start() that fails to bind or listen leaves the server Stopped:
\* running false, socket None, no listener thread.  A start() on a stopped
\* server ends either Running, or Stopped with nothing held and no listener
\* started.
C13_FailedStartStopped ==
  [][(~running /\ LastCall("start")' /\ calls' # calls)
       => \/ running' /\ socket' = "bound" /\ server_thread' = "thread"
          \/ /\ ~running'
             /\ socket' = "None"
             /\ server_thread' = "None"
             /\ listeners' = listeners]_vars

\* the only call so far was a start(), and the server is Stopped: the bind
\* failed
C13_Witness ==
  /\ calls = <<"start">>
  /\ ~running
  /\ socket = "None"
  /\ server_thread = "None"
  /\ listeners = 0

\* connection c is open and its thread waits in recv for bytes that no one
\* has sent, the client having closed nothing
WaitsForBytes(c) == pc[c] = "recv" /\ wire[c] = <<>> /\ peer[c] = "open"

\* C14: once stop() has completed on a Running server, every open connection
\* is closed without requiring further bytes or a client disconnect: no
\* connection is left waiting in recv.
C14_StopClosesConnections ==
  LastCall("stop") => \A c \in Conns : ~WaitsForBytes(c)

(***************************************************************************)
(* Parameter and failure claims.                                           *)
(***************************************************************************)
\* the params of command doc
ParamsOf(doc) == DictGet(doc, KeyParams, JObj(<<>>))

\* run l dispatched a command to a handler that was registered then, with
\* params that are a mapping
Handled(l) ==
  /\ TypeIn(l.doc, handlers(l.use_polyhaven, l.use_hyper3d))
  /\ ParamsOf(l.doc).k = "obj"

\* the parameters that the handler of run l takes by name: its own, or for
\* a Rodin handler those of the backend of the mode
Takes(l) ==
  IF TypeIn(l.doc, hyper3d_handlers)
    THEN backend(TypeOf(l.doc).v, l.hyper3d_mode)
  ELSE [signature(TypeOf(l.doc).v) EXCEPT !.kwargs = FALSE]

\* the params of run l hold a name its handler does not take, or lack one it
\* requires
Misnamed(l) == ~BindsTo(Takes(l), Keys(ParamsOf(l.doc)))

\* C15: a Command to a registered handler whose params contain a name the
\* handler does not recognize, or omit a required name, gets an error
\* Response.
C15_ParamsValidated ==
  \A l \in log : (Handled(l) /\ Misnamed(l)) => l.dispatched.status = "error"

\* C16: whenever a Command is answered with an error Response, it has not
\* partially executed: the objects of the scene are as they were before.
C16_NoPartialExecution ==
  [][\A l \in log' \ log :
       l.dispatched.status = "error" => objects' = objects]_vars

\* C17: a failure of a Scene Engine or Asset Provider call inside a handler
\* is never reported inside a success Response: no success Response carries
\* the handler's {"error": ...} result.
C17_FailureIsError ==
  \A l \in log :
    l.dispatched.status = "success" => ~l.dispatched.result.error

\* dispatch of run l failed: the document is no object, its type is missing,
\* unknown or no str, its params are no mapping, or the handler's result is
\* not serializable
DispatchFailed(l) ==
  \/ ~Handled(l)
  \/ l.dispatched.status = "success" /\ ~l.dispatched.result.serializable

UnderMode(doc, mode) ==
  execute_command(doc, FALSE, TRUE, "return", Bpy(objects, mode)).response

\* C19: the command-level API of the Rodin handlers is the same under both
\* modes: a Command that was accepted under the mode of its dispatch is
\* accepted under each mode, with the same Response envelope.
C19_SameUnderBothModes ==
  \A l \in log :
    (/\ TypeIn(l.doc, hyper3d_handlers)
     /\ l.use_hyper3d
     /\ l.dispatched.status = "success")
      => /\ UnderMode(l.doc, "MAIN_SITE").status = "success"
         /\ UnderMode(l.doc, "FAL_AI").status = "success"

(***************************************************************************)
(* Hand-off claim.                                                         *)
(***************************************************************************)
\* connection c decodes a command in this step
Decodes(c) == Len(decoded'[c]) = Len(decoded[c]) + 1

\* C20: submitting a Command never blocks the connection handler: the step
\* that decodes a Command registers its execute_wrapper and is back at the
\* read loop, without running the command or writing a Response; every
\* Response is produced later by a wrapper on the host's main thread.
C20_HandlerNeverWaits ==
  [][/\ \A c \in Conns :
          Decodes(c) =>
            /\ pc'[c] = "loop"
            /\ Len(timers') = Len(timers) + 1
            /\ UNCHANGED <<executing, outbox, log>>
     /\ \A l \in log' : l.thread = "main"]_vars

\* a connection has decoded its second Command while the wrapper of its
\* first is still registered and has not run
C20_Witness ==
  \E c \in Conns :
    /\ Len(decoded[c]) = 2
    /\ \E i \in 1..Len(timers) : timers[i].conn = c /\ timers[i].id = 1
    /\ RunsOf(c, 1) = {}
    /\ outbox[c] = <<>>

(***************************************************************************)
(* Buffer, listener and connection claims.                                 *)
(***************************************************************************)
\* the bytes that the read of connection c in this step returned
DataRead(c) == SubSeq(wire[c], 1, Len(wire[c]) - Len(wire'[c]))

\* C21: a connection's buffer is reset to empty only immediately after a
\* successful decode of the whole buffer; a read whose decode fails leaves
\* the buffer equal to the previous buffer followed by the bytes just read.
C21_BufferResetOnDecode ==
  [][\A c \in Conns :
       /\ (reads'[c] # reads[c] /\ Decodes(c)) => buffer'[c] = <<>>
       /\ (reads'[c] # reads[c] /\ ~Decodes(c))
            => buffer'[c] = buffer[c] \o DataRead(c)
       /\ (buffer'[c] # buffer[c] /\ buffer'[c] = <<>>) => Decodes(c)]_vars

\* a message arrived in two reads: the first left its bytes in the buffer,
\* the second completed the document and the buffer was reset
C21_Witness ==
  /\ reads[1] = 2
  /\ Len(decoded[1]) = 1
  /\ buffer[1] = <<>>
  /\ wire[1] = <<>>

\* C22: the listener waits a bounded time per accept, keeps running after an
\* accept error while the server is Running, and exits once the server is
\* shutting down: after stop() with no later start(), every listener thread
\* eventually terminates.
C22_ListenerTerminates ==
  /\ [][listeners' < listeners => ~running]_vars
  /\ LastCall("stop") ~> (listeners = 0 \/ LastCall("start"))

\* the listener met an accept error while the server ran and is still there
C22_Witness ==
  /\ running
  /\ listeners = 1
  /\ sleeping = 1

\* a Response to decode number id of connection c has been written
Answered(c, id) ==
  \E r \in log : r.conn = c /\ r.cmd = id /\ r.written

\* with its Commands one after the other a connection stays open: no outcome
\* of a Command closes it, its thread leaves the loop only when the server
\* stops or the client has closed, and the Command that follows a written
\* Response is answered unless the client closes or the server shuts down
SessionStaysOpen ==
  /\ [][/\ log' # log => pc' = pc
        /\ \A c \in Conns :
             (pc'[c] = "closed" /\ pc[c] # "closed")
               => leftBy'[c] \in {"stopped", "disconnected"}]_vars
  /\ (Len(outbox[1]) >= 1 /\ Len(sentMsgs[1]) = 2)
       ~> (Answered(1, 2) \/ peer[1] = "closed" \/ ~running)

\* connection c had its first Command answered before it decoded another
FirstAnswered(c) ==
  \E r \in log : r.conn = c /\ r.cmd = 1 /\ r.written /\ r.seen[c] = 1

\* C23: after a Response has been written the connection stays open, and
\* every later Command on it is decoded, executed and answered: once no
\* wrapper of the connection is left, each Command decoded after the first
\* Response has a Response of its own.
C23_LaterCommandsAnswered ==
  \A c \in Conns :
    (FirstAnswered(c) /\ Quiet(c) /\ ~Gone(c) /\ running)
      => \A id \in 2..Len(decoded[c]) : Answered(c, id)

\* two Commands were answered one after the other, the first with an error,
\* and the connection's thread is reading again
SessionWitness ==
  /\ Len(outbox[1]) = 2
  /\ outbox[1][1].cmd = 1
  /\ outbox[1][1].response.status = "error"
  /\ outbox[1][2].cmd = 2
  /\ pc[1] = "recv"
  /\ peer[1] = "open"
  /\ running

\* the wrappers registered and not yet called, those being run, and those
\* that have finished
Pending == {timers[i] : i \in 1..Len(timers)}

Begun == {[conn |-> e.conn, id |-> e.id] : e \in executing}

Finished == {[conn |-> r.conn, id |-> r.wrapper] : r \in log}

\* wrapper id of connection c has finished, its handler body run if the
\* Command it executed has one
BodyRan(c, id) ==
  \E r \in log :
    /\ r.conn = c
    /\ r.wrapper = id
    /\ Runnable(r.doc) => r.body # <<>>

C25_WrapperExecutesOwnCommand ==
  /\ \A e \in executing :
       e.cmd.id = e.id /\ e.cmd.v = decoded[e.conn][e.id]
  /\ \A r \in log :
       r.cmd = r.wrapper /\ r.doc = decoded[r.conn][r.wrapper]
  /\ \A c \in Conns : \A j \in 1..Len(outbox[c]) :
       outbox[c][j].cmd = outbox[c][j].wrapper

\* C26: after stop() has returned no connection handler submits a further
\* Command: when stop() was the last call and no bytes are in flight on a
\* connection that has decoded n Commands, then as long as no start()
\* follows, no handler body runs for a Command of that connection decoded
\* after the n-th.
C26_NoSubmitAfterStop ==
  \A n \in 0..MaxSends :
    []((LastCall("stop") /\ wire[1] = <<>> /\ Len(decoded[1]) = n)
         => [](LastCall("stop")
                 => \A r \in log :
                      (r.conn = 1 /\ r.body # <<>>) => r.wrapper <= n))

\* C27: under every sequence of stop() and start() calls on one server, at
\* most one listener thread is inside _server_loop.
C27_OneListener == listeners <= 1

\* C28: after the start-server and stop-server operators have run, in any
\* order and any number of times, scene.blendermcp_server_running is true
\* exactly when there is a server object whose running field is true,
\* also when start() failed to bind.
C28_FlagMatchesServer ==
  blendermcp_server_running <=> (blendermcp_server /\ running)

\* the gated commands of the capability of report r resolve to handlers under
\* the flags the report was made with
Resolves(r) ==
  \A k \in (IF r.capability = "polyhaven" THEN polyhaven_handlers
            ELSE hyper3d_handlers) :
    Lookup(JStr(k), r.use_polyhaven, r.use_hyper3d) # <<>>

\* C29: the status commands agree with the dispatcher: for every capability
\* flag, API key and mode, a status command reports enabled exactly when the
\* gated commands of its capability resolve to handlers.
C29_StatusAgrees ==
  \A r \in reports : r.result.enabled <=> Resolves(r)

\* C30: every Response is written on the host's main thread inside
\* execute_wrapper: a step that writes ends the one call in progress, which
\* is on the main thread, and appends one whole Response to the connection
\* of that wrapper's client and nothing to any other, so two writes never
\* overlap and the Responses of a connection are never interleaved.
C30_WritesOnMainOnly ==
  [][outbox' # outbox =>
       \E e \in executing :
         /\ e.thread = "main"
         /\ executing = {e}
         /\ executing' = {}
         /\ Len(outbox'[e.client]) = Len(outbox[e.client]) + 1
         /\ SubSeq(outbox'[e.client], 1, Len(outbox[e.client]))
              = outbox[e.client]
         /\ Shaped(outbox'[e.client][Len(outbox'[e.client])].response)
         /\ \A d \in Conns \ {e.client} : outbox'[d] = outbox[d]]_vars

\* one connection holds two Responses, written by two wrappers on the main
\* thread one after the other
C30_Witness ==
  /\ Len(outbox[1]) = 2
  /\ outbox[1][1].wrapper # outbox[1][2].wrapper
  /\ \A r \in log : r.thread = "main"
  /\ executing = {}
====
